---- MODULE Spec2Model ----
(***************************************************************************)
(* A model of scanpy's simple preprocessing functions                      *)
(* (scanpy/preprocessing/simple.py): filter_cells, filter_genes, log1p,    *)
(* sqrt, normalize_per_cell, scale, regress_out, subsample,                *)
(* downsample_counts and downsample_cell; and of graph_clustering          *)
(* (scanpy/tools/graph_clustering.py).                                     *)
(*                                                                         *)
(* Conventions.                                                            *)
(*  - A vector is a sequence; Python index i is position i+1 here, and     *)
(*    column indices of a compressed-row matrix are 1-based as well.       *)
(*  - Count matrices hold whole numbers.  Values produced by a division    *)
(*    (normalization) are exact rationals <<numerator, denominator>>.      *)
(*  - The element type of a matrix is not modelled.  downsample_counts is  *)
(*    modelled on matrices already of the integer type it converts to, so  *)
(*    that astype is a copy; normalize_per_cell, log1p, scale and          *)
(*    regress_out on floating-point ones, which their in-place arithmetic  *)
(*    requires.                                                            *)
(*  - np.random is modelled by a small deterministic generator: a state,  *)
(*    a seeding function and a step function.  What matters to the        *)
(*    properties is that a draw is a function of the generator state and  *)
(*    that seeding overwrites the state.  Code compiled by Numba keeps a   *)
(*    generator of the same kind, seeded by the same np.random.seed call   *)
(*    it makes; the one state stands for whichever the callee draws from.  *)
(*  - An optional argument is <<>> for None and <<v>> for the value v.     *)
(*  - A behaviour is one call on an input drawn from a bounded set; a call *)
(*    of regress_out that uses the worker pool takes a step per task.  The *)
(*    inputs include what earlier calls can leave behind: sparse matrices  *)
(*    with explicit zeros, and any state of the random generator.          *)
(***************************************************************************)
EXTENDS Integers, Sequences, FiniteSets, TLC

VARIABLES
    data,   \* the caller's data object: a vector, a matrix or an annotated dataset
    rng,    \* the state of the process-wide random generator (np.random)
    call    \* the call made on it: its arguments, what it returned or raised

vars == <<data, rng, call>>

(***************************************************************************)
(* Bounds of the model.                                                    *)
(***************************************************************************)
MaxLen == 3        \* longest vector handed to downsample_cell directly
MaxTotal == 4      \* largest total of such a vector
MaxTarget == 3     \* largest downsampling target
MaxSeed == 2       \* seeds 0..MaxSeed
NObs == 2          \* rows (cells) of a matrix
NVars == 2         \* columns (genes) of a matrix
MaxMatrixTotal == 3  \* largest total of a count matrix

Seeds == 0..MaxSeed
Targets == 0..MaxTarget

(***************************************************************************)
(* Generic helpers on sequences.                                           *)
(***************************************************************************)
RECURSIVE SeqSum(_)
SeqSum(s) == IF s = <<>> THEN 0 ELSE Head(s) + SeqSum(Tail(s))

Min(a, b) == IF a <= b THEN a ELSE b

Zeros(n) == [i \in 1..n |-> 0]

None == <<>>
Some(v) == <<v>>
IsNone(x) == x = <<>>
Val(x) == x[1]
Optional(S) == {None} \cup {Some(v) : v \in S}

\* Vectors of length n with non-negative entries summing to at most t.
RECURSIVE VectorsUpTo(_, _)
VectorsUpTo(n, t) ==
    IF n = 0 THEN {<<>>}
    ELSE UNION { { <<v>> \o w : w \in VectorsUpTo(n - 1, t - v) } : v \in 0..t }

CountVectors == UNION { VectorsUpTo(n, MaxTotal) : n \in 1..MaxLen }

(***************************************************************************)
(* The random generator.  np.random.seed(k) overwrites the state with a    *)
(* function of k, every draw advances the state, and randint(0, n) is a    *)
(* function of the advanced state.                                         *)
(***************************************************************************)
RngStates == 0..16

RngSeed(seed) == (5 * seed + 2) % 17

RngNext(s) == (3 * s + 1) % 17

RngInt(s, n) == s % n

\* np.random.choice(total, size, replace=True): size independent draws.
RECURSIVE ChoiceReplace(_, _, _, _)
ChoiceReplace(s, total, size, acc) ==
    IF size = 0 THEN [raised |-> FALSE, sample |-> acc, state |-> s]
    ELSE ChoiceReplace(RngNext(s), total, size - 1,
                       Append(acc, RngInt(RngNext(s), total)))

\* np.random.permutation(n): shuffle arange(n) from the last position down.
RECURSIVE Shuffle(_, _, _)
Shuffle(s, x, i) ==
    IF i <= 1 THEN [perm |-> x, state |-> s]
    ELSE Shuffle(RngNext(s),
                 [x EXCEPT ![i] = x[RngInt(RngNext(s), i) + 1],
                           ![RngInt(RngNext(s), i) + 1] = x[i]],
                 i - 1)

Permutation(s, n) == Shuffle(s, [i \in 1..n |-> i - 1], n)

\* The first entry of a permutation p, drawn size times.
PermutationFirst(p, size) ==
    [raised |-> FALSE, sample |-> [i \in 1..size |-> p.perm[1]], state |-> p.state]

\* The first size entries of a permutation p.
PermutationPrefix(p, size) ==
    [raised |-> FALSE, sample |-> SubSeq(p.perm, 1, size), state |-> p.state]

\* np.random.choice(total, size, replace): the sample, the generator state
\* it leaves, and whether the library raised ValueError (a sample larger than
\* the population without replacement, a negative size, or draws from an
\* empty population).
Choice(s, total, size, replace) ==
    IF size < 0 \/ (size > 0 /\ total <= 0) \/ (~replace /\ size > total)
    THEN [raised |-> TRUE, sample |-> <<>>, state |-> s]
    ELSE IF replace
    THEN ChoiceReplace(s, total, size, <<>>)
    ELSE PermutationPrefix(Permutation(s, total), size)

(***************************************************************************)
(* downsample_cell                                                         *)
(***************************************************************************)
\* col.cumsum()
RECURSIVE CumSumFrom(_, _)
CumSumFrom(s, acc) ==
    IF s = <<>> THEN <<>>
    ELSE <<acc + Head(s)>> \o CumSumFrom(Tail(s), acc + Head(s))

CumSum(s) == CumSumFrom(s, 0)

\* sample.sort(): ascending insertion sort.
RECURSIVE InsertSorted(_, _)
InsertSorted(x, s) ==
    IF s = <<>> THEN <<x>>
    ELSE IF x <= Head(s) THEN <<x>> \o s
    ELSE <<Head(s)>> \o InsertSorted(x, Tail(s))

RECURSIVE SortAsc(_)
SortAsc(s) == IF s = <<>> THEN <<>> ELSE InsertSorted(Head(s), SortAsc(Tail(s)))

\* while count >= cumcounts[geneptr]: geneptr += 1
RECURSIVE AdvanceGeneptrOffByOne(_, _, _)
AdvanceGeneptrOffByOne(count, geneptr, cumcounts) ==
    IF geneptr < Len(cumcounts) /\ count > cumcounts[geneptr]
    THEN AdvanceGeneptrOffByOne(count, geneptr + 1, cumcounts)
    ELSE geneptr

RECURSIVE AdvanceGeneptr(_, _, _)
AdvanceGeneptr(count, geneptr, cumcounts) ==
    IF count >= cumcounts[geneptr]
    THEN AdvanceGeneptr(count, geneptr + 1, cumcounts)
    ELSE geneptr

\* for count in sample: advance geneptr; col[geneptr] += 1
RECURSIVE MergeWalk(_, _, _, _, _)
MergeWalk(sample, k, geneptr, cumcounts, col) ==
    IF k > Len(sample) THEN col
    ELSE MergeWalk(sample, k + 1, AdvanceGeneptr(sample[k], geneptr, cumcounts),
                   cumcounts,
                   [col EXCEPT ![AdvanceGeneptr(sample[k], geneptr, cumcounts)] = @ + 1])

\* Lines 908-912: the value of geneptr when each count of the sample is
\* added to its bin.
RECURSIVE GeneptrWalk(_, _, _, _)
GeneptrWalk(sample, k, geneptr, cumcounts) ==
    IF k > Len(sample) THEN <<>>
    ELSE <<AdvanceGeneptr(sample[k], geneptr, cumcounts)>>
         \o GeneptrWalk(sample, k + 1, AdvanceGeneptr(sample[k], geneptr, cumcounts),
                        cumcounts)

\* The call np.random.seed(random_state) left out: the generator keeps the
\* state s it was found in.
NpRandomSeedSkipped(s, random_state) == s

\* np.random.seed(random_state), called with the generator in state s.
NpRandomSeed(s, random_state) == RngSeed(random_state)

\* What downsample_cell hands back once the walk over the sorted sample has
\* produced out: ret is the returned vector, buf the caller's array after
\* the call, state the generator state left behind.
CellReturn(col, inplace, out, state) ==
    [raised |-> FALSE, ret |-> out, buf |-> IF inplace THEN out ELSE col,
     state |-> state]

\* Lines 901-913 of downsample_cell, given the cumulative counts and the
\* outcome c of np.random.choice.  The array is zeroed (when inplace) before
\* the draw, so a draw that raises leaves it zeroed.
CellWalk(col, inplace, cumcounts, c) ==
    IF c.raised
    THEN [raised |-> TRUE, ret |-> <<>>,
          buf |-> IF inplace THEN Zeros(Len(col)) ELSE col, state |-> c.state]
    ELSE CellReturn(col, inplace,
                    MergeWalk(SortAsc(c.sample), 1, 1, cumcounts, Zeros(Len(col))),
                    c.state)

\* Lines 900-906, given the seeded generator state s0 and col.cumsum().
CellDraw(s0, col, cumcounts, target, replace, inplace) ==
    CellWalk(col, inplace, cumcounts,
             Choice(s0, cumcounts[Len(col)], target, replace))

\* downsample_cell(col, target, random_state, replace, inplace), entered with
\* the generator in state s.
DownsampleCell(s, col, target, random_state, replace, inplace) ==
    CellDraw(NpRandomSeed(s, random_state), col, CumSum(col), target, replace, inplace)

(***************************************************************************)
(* Matrices.  A dense matrix is its rows.  A compressed-row (CSR) matrix   *)
(* is scipy's three arrays: indptr (offsets into the other two, one per    *)
(* row plus one), indices (the column of each stored entry) and data (its  *)
(* value).  A stored entry may hold 0 (an explicit zero), and the entries  *)
(* of a row need not be stored in ascending column order.                  *)
(***************************************************************************)
Dense(rows) == [kind |-> "dense", rows |-> rows, n_vars |-> NVars]

IsSparse(m) == m.kind = "csr"

NRowsOf(m) == IF IsSparse(m) THEN Len(m.indptr) - 1 ELSE Len(m.rows)

RECURSIVE Concat(_)
Concat(ss) == IF ss = <<>> THEN <<>> ELSE Head(ss) \o Concat(Tail(ss))

Reverse(s) == [i \in 1..Len(s) |-> s[Len(s) + 1 - i]]

RECURSIVE SetSum(_, _)
SetSum(S, f) ==
    IF S = {} THEN 0
    ELSE LET x == CHOOSE y \in S : TRUE IN f[x] + SetSum(S \ {x}, f)

\* The columns of one row a CSR matrix stores, ascending.
RECURSIVE StoredCols(_, _, _)
StoredCols(row, j, storeZeros) ==
    IF j > Len(row) THEN <<>>
    ELSE (IF row[j] # 0 \/ storeZeros THEN <<j>> ELSE <<>>)
         \o StoredCols(row, j + 1, storeZeros)

\* The CSR matrix of the given rows: with or without explicit zeros, its
\* rows' entries in ascending or in descending column order.
CsrOf(rows, storeZeros, descending) ==
    LET cols == [i \in 1..Len(rows) |->
                    LET c == StoredCols(rows[i], 1, storeZeros)
                    IN  IF descending THEN Reverse(c) ELSE c]
    IN  [kind    |-> "csr",
         indptr  |-> <<0>> \o CumSum([i \in 1..Len(rows) |-> Len(cols[i])]),
         indices |-> Concat(cols),
         data    |-> Concat([i \in 1..Len(rows) |->
                        [k \in 1..Len(cols[i]) |-> rows[i][cols[i][k]]]]),
         n_vars  |-> NVars]

\* The positions of row i (1-based) in indices and data.
RowSeg(m, i) == (m.indptr[i] + 1)..m.indptr[i + 1]

\* X.data[indptr[i]:indptr[i+1]]
RowData(m, i) == SubSeq(m.data, m.indptr[i] + 1, m.indptr[i + 1])

\* X.toarray(): the logical matrix, as rows.
ToDenseRows(m) ==
    IF IsSparse(m)
    THEN [i \in 1..NRowsOf(m) |->
            [j \in 1..m.n_vars |->
                SetSum({k \in RowSeg(m, i) : m.indices[k] = j}, m.data)]]
    ELSE m.rows

\* Column indices ascending within every row, none repeated.
HasCanonicalFormat(m) ==
    \A i \in 1..NRowsOf(m) : \A k \in RowSeg(m, i) :
        k + 1 \in RowSeg(m, i) => m.indices[k] < m.indices[k + 1]

\* X.sum(axis=1)
RowTotals(m) ==
    IF IsSparse(m)
    THEN [i \in 1..NRowsOf(m) |-> SeqSum(RowData(m, i))]
    ELSE [i \in 1..NRowsOf(m) |-> SeqSum(m.rows[i])]

\* X[idx] for a sequence idx of row numbers: the rows in that order.
TakeRows(m, idx) ==
    IF IsSparse(m)
    THEN [kind    |-> "csr",
          indptr  |-> <<0>> \o CumSum([k \in 1..Len(idx) |->
                                          m.indptr[idx[k] + 1] - m.indptr[idx[k]]]),
          indices |-> Concat([k \in 1..Len(idx) |->
                        SubSeq(m.indices, m.indptr[idx[k]] + 1, m.indptr[idx[k] + 1])]),
          data    |-> Concat([k \in 1..Len(idx) |-> RowData(m, idx[k])]),
          n_vars  |-> m.n_vars]
    ELSE [m EXCEPT !.rows = [k \in 1..Len(idx) |-> m.rows[idx[k]]]]

\* The input matrices: NObs x NVars counts with a bounded total.
RECURSIVE Reshape(_, _)
Reshape(flat, n) ==
    IF flat = <<>> THEN <<>>
    ELSE <<SubSeq(flat, 1, n)>> \o Reshape(SubSeq(flat, n + 1, Len(flat)), n)

CountRows == { Reshape(f, NVars) : f \in VectorsUpTo(NObs * NVars, MaxMatrixTotal) }

DenseMatrices == { Dense(r) : r \in CountRows }

SparseMatrices ==
    { CsrOf(r, z, d) : r \in CountRows, z \in BOOLEAN, d \in BOOLEAN }

Matrices == DenseMatrices \cup SparseMatrices

(***************************************************************************)
(* The annotated dataset: the matrix X, the alternate layers (named by     *)
(* position), and the annotation columns this module writes.               *)
(***************************************************************************)
NoObs == [n_counts |-> None, n_genes |-> None]
NoVar == [n_counts |-> None, n_cells |-> None]

AnnData(X, layers) ==
    [kind |-> "anndata", X |-> X, layers |-> layers, obs |-> NoObs, var |-> NoVar]

IsAnnData(d) == d.kind = "anndata"

(***************************************************************************)
(* downsample_counts                                                       *)
(***************************************************************************)
\* s with the entries after position lo replaced by those of new.
ReplaceSeg(s, lo, new) ==
    [k \in 1..Len(s) |-> IF k > lo /\ k <= lo + Len(new) THEN new[k - lo] ELSE s[k]]

\* np.nonzero(totals > target_counts)[0], as 1-based row numbers, ascending.
RECURSIVE UnderTargetFrom(_, _, _)
UnderTargetFrom(totals, target_counts, i) ==
    IF i > Len(totals) THEN <<>>
    ELSE (IF totals[i] > target_counts THEN <<i>> ELSE <<>>)
         \o UnderTargetFrom(totals, target_counts, i + 1)

\* The selection with >= in place of >: rows already at the target too.
RECURSIVE AtOrAboveTargetFrom(_, _, _)
AtOrAboveTargetFrom(totals, target_counts, i) ==
    IF i > Len(totals) THEN <<>>
    ELSE (IF totals[i] >= target_counts THEN <<i>> ELSE <<>>)
         \o AtOrAboveTargetFrom(totals, target_counts, i + 1)

AtOrAboveTarget(totals, target_counts) == AtOrAboveTargetFrom(totals, target_counts, 1)

UnderTarget(totals, target_counts) == UnderTargetFrom(totals, target_counts, 1)

\* One pass of the sparse branch's loop: r is what downsample_cell, called
\* in place on the stored entries of row i, did.
SparseRowStep(X, i, r) ==
    [raised |-> r.raised, state |-> r.state,
     X |-> [X EXCEPT !.data = ReplaceSeg(X.data, X.indptr[i], r.buf)]]

\* The sparse branch's loop (lines 874-877): downsample_cell in place on each
\* selected row, in row order.  An exception ends the loop and leaves the
\* rows already rewritten as they are.
RECURSIVE DownsampleSparseRows(_, _, _, _, _, _, _)
RECURSIVE SparseRowsFrom(_, _, _, _, _, _)
SparseRowsFrom(st, under_target, k, target, random_state, replace) ==
    IF st.raised THEN st
    ELSE DownsampleSparseRows(st.state, st.X, under_target, k, target,
                              random_state, replace)

DownsampleSparseRows(s, X, under_target, k, target, random_state, replace) ==
    IF k > Len(under_target) THEN [raised |-> FALSE, state |-> s, X |-> X]
    ELSE SparseRowsFrom(
            SparseRowStep(X, under_target[k],
                DownsampleCell(s, RowData(X, under_target[k]), target,
                               random_state, replace, TRUE)),
            under_target, k + 1, target, random_state, replace)

\* The rows np.apply_along_axis(downsample_cell, 1, X[under_target, :], ...)
\* computes, in row order; an exception ends it.
RECURSIVE DownsampleDenseRows(_, _, _, _, _, _, _)
RECURSIVE DenseRowsFrom(_, _, _, _, _, _, _)
DenseRowsFrom(r, rows, k, target, random_state, replace, acc) ==
    IF r.raised THEN [raised |-> TRUE, rows |-> acc, state |-> r.state]
    ELSE DownsampleDenseRows(r.state, rows, k, target, random_state, replace,
                             Append(acc, r.ret))

DownsampleDenseRows(s, rows, k, target, random_state, replace, acc) ==
    IF k > Len(rows) THEN [raised |-> FALSE, rows |-> acc, state |-> s]
    ELSE DenseRowsFrom(
            DownsampleCell(s, rows[k], target, random_state, replace, FALSE),
            rows, k + 1, target, random_state, replace, acc)

\* X.eliminate_zeros(): stored entries holding 0 are dropped.
EliminateZeros(X) ==
    LET keep == [i \in 1..NRowsOf(X) |->
                    SelectSeq([k \in 1..(X.indptr[i + 1] - X.indptr[i]) |-> X.indptr[i] + k],
                              LAMBDA k : X.data[k] # 0)]
    IN  [X EXCEPT !.indptr  = <<0>> \o CumSum([i \in 1..NRowsOf(X) |-> Len(keep[i])]),
                  !.indices = Concat([i \in 1..NRowsOf(X) |->
                                  [k \in 1..Len(keep[i]) |-> X.indices[keep[i][k]]]]),
                  !.data    = Concat([i \in 1..NRowsOf(X) |->
                                  [k \in 1..Len(keep[i]) |-> X.data[keep[i][k]]]])]

Compacted(r) == [r EXCEPT !.X = EliminateZeros(r.X)]

\* The sparse branch, compacting the matrix once the rows are rewritten.
DownsampleSparseCompacting(s, X, target_counts, random_state, replace) ==
    Compacted(DownsampleSparseRows(s, X, UnderTarget(RowTotals(X), target_counts),
                                   1, target_counts, random_state, replace))

\* The branch of downsample_counts for a sparse X (lines 868-879).
DownsampleSparse(s, X, target_counts, random_state, replace) ==
    DownsampleSparseRows(s, X, UnderTarget(RowTotals(X), target_counts), 1,
                         target_counts, random_state, replace)

\* adata.X[under_target, :] = rows (line 883), unless the rows could not be
\* computed.  np.apply_along_axis raises ValueError when handed no rows at
\* all, before anything is assigned.
AssignDenseRows(X, under_target, r) ==
    IF under_target = <<>> \/ r.raised
    THEN [raised |-> TRUE, state |-> r.state, X |-> X]
    ELSE [raised |-> FALSE, state |-> r.state,
          X |-> [X EXCEPT !.rows =
                    [i \in 1..Len(X.rows) |->
                        IF \E k \in 1..Len(under_target) : under_target[k] = i
                        THEN r.rows[CHOOSE k \in 1..Len(under_target) :
                                        under_target[k] = i]
                        ELSE X.rows[i]]]]

DenseUnderTarget(s, X, under_target, target_counts, random_state, replace) ==
    AssignDenseRows(X, under_target,
        DownsampleDenseRows(s, [k \in 1..Len(under_target) |-> X.rows[under_target[k]]],
                            1, target_counts, random_state, replace, <<>>))

\* The branch for a dense X (lines 881-885).
DownsampleDense(s, X, target_counts, random_state, replace) ==
    DenseUnderTarget(s, X, UnderTarget(RowTotals(X), target_counts),
                     target_counts, random_state, replace)

\* What downsample_counts hands back, r being what its branch did to X: the
\* returned object (ret), the caller's dataset afterwards (data) and the
\* generator state left behind.  With copy the branch worked on a copy.
DownsampleReturn(adata, copy, r) ==
    [raised |-> r.raised,
     ret    |-> IF copy /\ ~r.raised THEN Some([adata EXCEPT !.X = r.X]) ELSE None,
     data   |-> IF copy THEN adata ELSE [adata EXCEPT !.X = r.X],
     state  |-> r.state]

\* downsample_counts(adata, target_counts, random_state, replace, copy),
\* entered with the generator in state s.  The matrices of the model hold
\* whole numbers, which astype(np.integer) leaves as they are.
DownsampleCounts(s, adata, target_counts, random_state, replace, copy) ==
    DownsampleReturn(adata, copy,
        IF IsSparse(adata.X)
        THEN DownsampleSparse(s, adata.X, target_counts, random_state, replace)
        ELSE DownsampleDense(s, adata.X, target_counts, random_state, replace))

(***************************************************************************)
(* subsample                                                               *)
(***************************************************************************)
Array(v) == [kind |-> "array", vals |-> v]

\* data.n_obs for a dataset, data.shape[0] for an array or a matrix.
NObsOf(d) ==
    IF IsAnnData(d) THEN NRowsOf(d.X)
    ELSE IF d.kind = "array" THEN Len(d.vals)
    ELSE NRowsOf(d)

\* A per-row annotation column restricted to the rows idx.
TakeOptional(col, idx) ==
    IF IsNone(col) THEN None ELSE Some([k \in 1..Len(idx) |-> Val(col)[idx[k]]])

\* adata._inplace_subset_obs(idx): the matrix, the layers and the per-row
\* annotations keep the rows idx.
SubsetObs(adata, idx) ==
    [adata EXCEPT !.X = TakeRows(adata.X, idx),
                  !.layers = [l \in 1..Len(adata.layers) |-> TakeRows(adata.layers[l], idx)],
                  !.obs = [k \in DOMAIN adata.obs |-> TakeOptional(adata.obs[k], idx)]]

\* X[obs_indices] for an array or a matrix.
TakeObs(d, idx) ==
    IF d.kind = "array" THEN Array([k \in 1..Len(idx) |-> d.vals[idx[k]]])
    ELSE TakeRows(d, idx)

\* Lines 829-835, c being the outcome of np.random.choice: the dataset is
\* subset in place (or its copy is), an array or matrix is indexed.
SubsampleReturn(d, copy, c, idx) ==
    IF c.raised
    THEN [raised |-> TRUE, ret |-> None, data |-> d, state |-> c.state]
    ELSE IF IsAnnData(d)
    THEN [raised |-> FALSE,
          ret    |-> IF copy THEN Some(SubsetObs(d, idx)) ELSE None,
          data   |-> IF copy THEN d ELSE SubsetObs(d, idx),
          state  |-> c.state]
    ELSE [raised |-> FALSE,
          ret    |-> Some(<<TakeObs(d, idx), c.sample>>),
          data   |-> d,
          state  |-> c.state]

SubsampleDraw(d, copy, c) ==
    SubsampleReturn(d, copy, c, [k \in 1..Len(c.sample) |-> c.sample[k] + 1])

\* The product of the fraction and old_n_obs, rounded to the nearest
\* integer, a half upwards.
NewNObsRounded(fraction, old_n_obs) ==
    (2 * fraction[1] * old_n_obs + fraction[2]) \div (2 * fraction[2])

\* Line 824: new_n_obs = int(fraction * old_n_obs), for a fraction <<p, q>>
\* that is not negative.
NewNObs(fraction, old_n_obs) == (fraction[1] * old_n_obs) \div fraction[2]

\* Lines 817-828, given the seeded generator state s0.  A fraction is the
\* rational <<p, q>>, q > 0.
SubsampleSeeded(s0, d, fraction, n_obs, copy) ==
    IF ~IsNone(n_obs)
    THEN SubsampleDraw(d, copy, Choice(s0, NObsOf(d), Val(n_obs), FALSE))
    ELSE IF ~IsNone(fraction)
    THEN IF Val(fraction)[1] > Val(fraction)[2] \/ Val(fraction)[1] < 0
         THEN [raised |-> TRUE, ret |-> None, data |-> d, state |-> s0]
         ELSE SubsampleDraw(d, copy,
                Choice(s0, NObsOf(d), NewNObs(Val(fraction), NObsOf(d)), FALSE))
    ELSE [raised |-> TRUE, ret |-> None, data |-> d, state |-> s0]

\* subsample(data, fraction, n_obs, random_state, copy), entered with the
\* generator in state s.
Subsample(s, d, fraction, n_obs, random_state, copy) ==
    SubsampleSeeded(NpRandomSeed(s, random_state), d, fraction, n_obs, copy)

(***************************************************************************)
(* filter_cells and filter_genes                                           *)
(***************************************************************************)
\* The positions at which a boolean mask is true, ascending.
RECURSIVE MaskIndexFrom(_, _)
MaskIndexFrom(mask, i) ==
    IF i > Len(mask) THEN <<>>
    ELSE (IF mask[i] THEN <<i>> ELSE <<>>) \o MaskIndexFrom(mask, i + 1)

MaskIndex(mask) == MaskIndexFrom(mask, 1)

\* X.sort_indices(): every row's stored entries by ascending column.
SortIndices(m) ==
    [m EXCEPT
        !.indices = Concat([i \in 1..NRowsOf(m) |->
                        SortAsc(SubSeq(m.indices, m.indptr[i] + 1, m.indptr[i + 1]))]),
        !.data = Concat([i \in 1..NRowsOf(m) |->
                        [k \in 1..(m.indptr[i + 1] - m.indptr[i]) |->
                            m.data[CHOOSE p \in RowSeg(m, i) :
                                m.indices[p] =
                                    SortAsc(SubSeq(m.indices, m.indptr[i] + 1,
                                                   m.indptr[i + 1]))[k]]]])]

\* What evaluating X > 0 leaves of X: a compressed-row matrix is brought to
\* canonical format first (the input matrices store no column twice, so
\* that is a sort of each row's entries); a dense one is not touched.
Compared(X) == IF IsSparse(X) THEN SortIndices(X) ELSE X

\* The count with every stored entry counted, explicit zeros too.
RowStored(m) ==
    IF IsSparse(m)
    THEN [i \in 1..NRowsOf(m) |-> m.indptr[i + 1] - m.indptr[i]]
    ELSE [i \in 1..NRowsOf(m) |-> Cardinality({j \in 1..m.n_vars : m.rows[i][j] > 0})]

\* np.sum(X > 0, axis=1): per row, the entries above 0.  X > 0 of a
\* compressed-row matrix has an entry where a stored value is above 0.
RowNonzeros(m) ==
    IF IsSparse(m)
    THEN [i \in 1..NRowsOf(m) |-> Cardinality({k \in RowSeg(m, i) : m.data[k] > 0})]
    ELSE [i \in 1..NRowsOf(m) |-> Cardinality({j \in 1..m.n_vars : m.rows[i][j] > 0})]

\* np.sum(X, axis=0)
ColTotals(m) ==
    IF IsSparse(m)
    THEN [j \in 1..m.n_vars |-> SetSum({k \in 1..Len(m.data) : m.indices[k] = j}, m.data)]
    ELSE [j \in 1..m.n_vars |-> SeqSum([i \in 1..NRowsOf(m) |-> m.rows[i][j]])]

\* np.sum(X > 0, axis=0)
ColNonzeros(m) ==
    IF IsSparse(m)
    THEN [j \in 1..m.n_vars |->
            Cardinality({k \in 1..Len(m.data) : m.indices[k] = j /\ m.data[k] > 0})]
    ELSE [j \in 1..m.n_vars |-> Cardinality({i \in 1..NRowsOf(m) : m.rows[i][j] > 0})]

\* X[:, idx] for a sequence idx of ascending column numbers: a compressed-
\* row matrix keeps the stored entries of those columns, renumbered.
TakeCols(m, idx) ==
    IF IsSparse(m)
    THEN LET kept == [i \in 1..NRowsOf(m) |->
                        SelectSeq([k \in 1..(m.indptr[i + 1] - m.indptr[i]) |-> m.indptr[i] + k],
                                  LAMBDA p : \E c \in 1..Len(idx) : idx[c] = m.indices[p])]
         IN  [kind    |-> "csr",
              indptr  |-> <<0>> \o CumSum([i \in 1..NRowsOf(m) |-> Len(kept[i])]),
              indices |-> Concat([i \in 1..NRowsOf(m) |->
                            [k \in 1..Len(kept[i]) |->
                                CHOOSE c \in 1..Len(idx) : idx[c] = m.indices[kept[i][k]]]]),
              data    |-> Concat([i \in 1..NRowsOf(m) |->
                            [k \in 1..Len(kept[i]) |-> m.data[kept[i][k]]]]),
              n_vars  |-> Len(idx)]
    ELSE [m EXCEPT !.rows = [i \in 1..Len(m.rows) |->
                                [c \in 1..Len(idx) |-> m.rows[i][idx[c]]]],
                   !.n_vars = Len(idx)]

\* adata._inplace_subset_var(idx): the matrix, the layers and the per-column
\* annotations keep the columns idx.
SubsetVar(adata, idx) ==
    [adata EXCEPT !.X = TakeCols(adata.X, idx),
                  !.layers = [l \in 1..Len(adata.layers) |-> TakeCols(adata.layers[l], idx)],
                  !.var = [n_counts |-> TakeOptional(adata.var.n_counts, idx),
                           n_cells  |-> TakeOptional(adata.var.n_cells, idx)]]

\* The mask with > and < in place of >= and <=.
StrictSubset(number, min_number, max_number) ==
    [i \in 1..Len(number) |->
        IF ~IsNone(max_number) THEN number[i] < Val(max_number)
        ELSE number[i] > Val(min_number)]

\* Lines 138-141 (223-226): the lower bound's mask, replaced by the upper
\* bound's when there is an upper bound.
Subset(number, min_number, max_number) ==
    [i \in 1..Len(number) |->
        IF ~IsNone(max_number) THEN number[i] <= Val(max_number)
        ELSE number[i] >= Val(min_number)]

\* The matrix branch from the mask on: with neither bound the mask is
\* never assigned and its first use raises.
MatrixFiltered(X, number, min_number, max_number) ==
    IF IsNone(min_number) /\ IsNone(max_number)
    THEN [raised |-> TRUE, X |-> X]
    ELSE [raised |-> FALSE, X |-> X, number |-> number,
          subset |-> Subset(number, min_number, max_number)]

\* filter_cells on a matrix, lines 132-153.
FilterCellsMatrix(X, min_counts, min_genes, max_counts, max_genes) ==
    IF IsNone(min_genes) /\ IsNone(max_genes)
    THEN MatrixFiltered(X, RowTotals(X),
                        IF IsNone(min_genes) THEN min_counts ELSE min_genes,
                        IF IsNone(max_genes) THEN max_counts ELSE max_genes)
    ELSE MatrixFiltered(Compared(X), RowNonzeros(X),
                        IF IsNone(min_genes) THEN min_counts ELSE min_genes,
                        IF IsNone(max_genes) THEN max_counts ELSE max_genes)

\* filter_genes on a matrix, lines 216-240.
FilterGenesMatrix(X, min_counts, min_cells, max_counts, max_cells) ==
    IF IsNone(min_cells) /\ IsNone(max_cells)
    THEN MatrixFiltered(X, ColTotals(X),
                        IF IsNone(min_cells) THEN min_counts ELSE min_cells,
                        IF IsNone(max_cells) THEN max_counts ELSE max_cells)
    ELSE MatrixFiltered(Compared(X), ColNonzeros(X),
                        IF IsNone(min_cells) THEN min_counts ELSE min_cells,
                        IF IsNone(max_cells) THEN max_counts ELSE max_cells)

\* What a call on a matrix hands back: the mask and the statistic.
MatrixReturn(s, f) ==
    IF f.raised
    THEN [raised |-> TRUE, ret |-> None, data |-> f.X, state |-> s]
    ELSE [raised |-> FALSE, ret |-> Some(<<f.subset, f.number>>), data |-> f.X, state |-> s]

\* What a call on a dataset hands back: worked is the object worked on (the
\* caller's own, or its copy) as the call leaves it.
AnnDataReturn(s, adata, copy, raised, worked) ==
    [raised |-> raised,
     ret    |-> IF copy /\ ~raised THEN Some(worked) ELSE None,
     data   |-> IF copy THEN adata ELSE worked,
     state  |-> s]

\* Lines 125-131, f being the outcome on adata.X.
FilterCellsAnnData(s, adata, copy, counting, f) ==
    IF f.raised
    THEN AnnDataReturn(s, adata, copy, TRUE, [adata EXCEPT !.X = f.X])
    ELSE AnnDataReturn(s, adata, copy, FALSE,
            SubsetObs(IF counting
                      THEN [adata EXCEPT !.X = f.X, !.obs.n_genes = Some(f.number)]
                      ELSE [adata EXCEPT !.X = f.X, !.obs.n_counts = Some(f.number)],
                      MaskIndex(f.subset)))

\* Lines 204-214, f being the outcome on adata.X.
FilterGenesAnnData(s, adata, copy, counting, f) ==
    IF f.raised
    THEN AnnDataReturn(s, adata, copy, TRUE, [adata EXCEPT !.X = f.X])
    ELSE AnnDataReturn(s, adata, copy, FALSE,
            SubsetVar(IF counting
                      THEN [adata EXCEPT !.X = f.X, !.var.n_cells = Some(f.number)]
                      ELSE [adata EXCEPT !.X = f.X, !.var.n_counts = Some(f.number)],
                      MaskIndex(f.subset)))

\* Lines 117-124: the pairs of options filter_cells rejects, and none.
FilterCellsArgumentError(min_counts, min_genes, max_counts, max_genes) ==
    \/ ~IsNone(min_genes) /\ ~IsNone(min_counts)
    \/ ~IsNone(min_genes) /\ ~IsNone(max_genes)
    \/ ~IsNone(min_counts) /\ ~IsNone(max_counts)
    \/ IsNone(min_genes) /\ IsNone(min_counts) /\ IsNone(max_genes) /\ IsNone(max_counts)

\* Lines 196-202: n_given_options != 1.
FilterGenesArgumentError(min_counts, min_cells, max_counts, max_cells) ==
    Cardinality({k \in 1..4 :
        ~IsNone(<<min_cells, min_counts, max_cells, max_counts>>[k])}) # 1

\* filter_cells(data, min_counts, min_genes, max_counts, max_genes, copy)
FilterCells(s, d, min_counts, min_genes, max_counts, max_genes, copy) ==
    IF FilterCellsArgumentError(min_counts, min_genes, max_counts, max_genes)
    THEN [raised |-> TRUE, ret |-> None, data |-> d, state |-> s]
    ELSE IF IsAnnData(d)
    THEN FilterCellsAnnData(s, d, copy, ~(IsNone(min_genes) /\ IsNone(max_genes)),
            FilterCellsMatrix(d.X, min_counts, min_genes, max_counts, max_genes))
    ELSE MatrixReturn(s, FilterCellsMatrix(d, min_counts, min_genes, max_counts, max_genes))

\* filter_genes(data, min_counts, min_cells, max_counts, max_cells, copy)
FilterGenes(s, d, min_counts, min_cells, max_counts, max_cells, copy) ==
    IF FilterGenesArgumentError(min_counts, min_cells, max_counts, max_cells)
    THEN [raised |-> TRUE, ret |-> None, data |-> d, state |-> s]
    ELSE IF IsAnnData(d)
    THEN FilterGenesAnnData(s, d, copy, ~(IsNone(min_cells) /\ IsNone(max_cells)),
            FilterGenesMatrix(d.X, min_counts, min_cells, max_counts, max_cells))
    ELSE MatrixReturn(s, FilterGenesMatrix(d, min_counts, min_cells, max_counts, max_cells))

(***************************************************************************)
(* normalize_per_cell.  Its arithmetic is floating-point division; the     *)
(* model's is exact, on rationals <<num, den>> in lowest terms with        *)
(* den > 0.  <<0, 0>> is NaN, the median of no values.                     *)
(***************************************************************************)
RECURSIVE GCD(_, _)
GCD(a, b) == IF b = 0 THEN a ELSE GCD(b, a % b)

NaN == <<0, 0>>

Rat(n, d) ==
    IF d = 0 THEN NaN
    ELSE <<n \div GCD(IF n < 0 THEN -n ELSE n, d), d \div GCD(IF n < 0 THEN -n ELSE n, d)>>

RatAdd(p, q) == Rat(p[1] * q[2] + q[1] * p[2], p[2] * q[2])

RECURSIVE RatSum(_)
RatSum(seq) == IF seq = <<>> THEN <<0, 1>> ELSE RatAdd(Head(seq), RatSum(Tail(seq)))

\* np.median(counts)
Median(counts) ==
    IF counts = <<>> THEN NaN
    ELSE IF Len(counts) % 2 = 1
    THEN <<SortAsc(counts)[(Len(counts) + 1) \div 2], 1>>
    ELSE Rat(SortAsc(counts)[Len(counts) \div 2] + SortAsc(counts)[Len(counts) \div 2 + 1], 2)

\* Line 572 without the replacement of zero totals.
KeepZeros(counts) == counts

\* Line 572, counts_per_cell += counts_per_cell == 0
ReplaceZeros(counts) == [i \in 1..Len(counts) |-> IF counts[i] = 0 THEN 1 ELSE counts[i]]

\* The row of the stored entry at position k.
RowOf(m, k) == CHOOSE i \in 1..NRowsOf(m) : k \in RowSeg(m, i)

\* Lines 573-575: every value of row i divided by counts[i] / after.  The
\* quotient counts[i] / 0 is infinite and a value divided by it is 0.
ScaleRows(X, counts, after) ==
    IF IsSparse(X)
    THEN [X EXCEPT !.data = [k \in 1..Len(X.data) |->
                Rat(X.data[k] * after[1], counts[RowOf(X, k)] * after[2])]]
    ELSE [X EXCEPT !.rows = [i \in 1..Len(X.rows) |->
                [j \in 1..Len(X.rows[i]) |->
                    Rat(X.rows[i][j] * after[1], counts[i] * after[2])]]]

\* A sequence restricted to the positions idx.
TakeSeq(seq, idx) == [k \in 1..Len(idx) |-> seq[idx[k]]]

NormalizeRaised(s, X) ==
    [raised |-> TRUE, ret |-> None, data |-> X, state |-> s, after |-> None]

\* Lines 570-576 on the matrix X worked on, given the target used: data is
\* the caller's matrix X0 when X is a copy of it.
MatrixNormalized(s, X0, copy, X, counts, used) ==
    [raised |-> FALSE,
     ret    |-> IF copy THEN Some(ScaleRows(X, ReplaceZeros(counts), used)) ELSE None,
     data   |-> IF copy THEN X0 ELSE ScaleRows(X, ReplaceZeros(counts), used),
     state  |-> s,
     after  |-> Some(used)]

\* Lines 568-569: the target defaults to the median of the counts.
NormalizeWithCounts(s, X0, copy, X, counts, counts_per_cell_after) ==
    MatrixNormalized(s, X0, copy, X, counts,
                     IF IsNone(counts_per_cell_after) THEN Median(counts)
                     ELSE Val(counts_per_cell_after))

\* Lines 565-567, f being the outcome of filter_cells on the copy.
NormalizeFiltered(s, X0, f, counts_per_cell_after) ==
    IF f.raised THEN NormalizeRaised(s, X0)
    ELSE NormalizeWithCounts(s, X0, TRUE,
                             TakeRows(X0, MaskIndex(Val(f.ret)[1])),
                             TakeSeq(Val(f.ret)[2], MaskIndex(Val(f.ret)[1])),
                             counts_per_cell_after)

\* normalize_per_cell on a matrix, lines 561-576.
NormalizeMatrix(s, X, counts_per_cell_after, counts_per_cell, copy, min_counts) ==
    IF IsNone(counts_per_cell)
    THEN IF ~copy THEN NormalizeRaised(s, X)
         ELSE NormalizeFiltered(s, X,
                  FilterCells(s, X, min_counts, None, None, None, FALSE),
                  counts_per_cell_after)
    ELSE NormalizeWithCounts(s, X, copy, X, Val(counts_per_cell), counts_per_cell_after)

\* Lines 542-548.  use_rep is "after", "X", "none" for None, or another
\* string.
UseRepError(use_rep) == use_rep \notin {"after", "X", "none"}

\* The choice that ignores use_rep: every layer on its own median.
LayerAfterOwn(use_rep, counts_per_cell_after, counts) == None

LayerAfter(use_rep, counts_per_cell_after, counts) ==
    IF use_rep = "after" THEN counts_per_cell_after
    ELSE IF use_rep = "X" THEN Some(Median(counts))
    ELSE None

\* One pass of the loop of lines 549-553: f is the outcome of filter_cells
\* on the layer, whose mask the loop does not use.
LayerNormalized(s, layer, after, f) ==
    NormalizeMatrix(s, layer, after, Some(Val(f.ret)[2]), TRUE, Some(1))

\* The layers named: layers is all of them ('all') or a list of names.
LayersNamed(adata, layers) ==
    IF layers.all THEN 1..Len(adata.layers)
    ELSE {layers.names[k] : k \in 1..Len(layers.names)}

\* What the call on a dataset hands back, with the targets used for X and
\* for each layer normalized.
NormalizeReturn(s, adata, copy, raised, worked, after, layer_after) ==
    [raised |-> raised,
     ret    |-> IF copy /\ ~raised THEN Some(worked) ELSE None,
     data   |-> IF copy THEN adata ELSE worked,
     state  |-> s,
     after  |-> after,
     layer_after |-> layer_after]

\* Lines 541-559 on the dataset worked on, its X normalized.
NormalizeLayers(s, adata, copy, worked, used, layers, use_rep, after, min_counts) ==
    IF UseRepError(use_rep)
    THEN NormalizeReturn(s, adata, copy, TRUE, worked, used, <<>>)
    ELSE NormalizeReturn(s, adata, copy, FALSE,
            [worked EXCEPT !.layers = [l \in 1..Len(worked.layers) |->
                IF l \in LayersNamed(worked, layers)
                THEN Val(LayerNormalized(s, worked.layers[l], after,
                        FilterCells(s, worked.layers[l], min_counts, None, None, None,
                                    FALSE)).ret)
                ELSE worked.layers[l]]],
            used,
            [l \in 1..Len(worked.layers) |->
                IF l \in LayersNamed(worked, layers)
                THEN LayerNormalized(s, worked.layers[l], after,
                        FilterCells(s, worked.layers[l], min_counts, None, None, None,
                                    FALSE)).after
                ELSE None])

\* Lines 538-539, on the dataset subset to the rows kept, counts being the
\* totals of those rows.
NormalizeX(s, adata, copy, worked, counts, after, layers, use_rep, min_counts, inner) ==
    NormalizeLayers(s, adata, copy, [worked EXCEPT !.X = inner.data], inner.after,
                    layers, use_rep, LayerAfter(use_rep, after, counts), min_counts)

\* Lines 534-537, f being the outcome of filter_cells on adata.X.
NormalizeAnnData(s, adata, copy, f, counts_per_cell_after, layers, use_rep, min_counts) ==
    IF f.raised
    THEN NormalizeReturn(s, adata, copy, TRUE, adata, None, <<>>)
    ELSE NormalizeX(s, adata, copy,
            SubsetObs([adata EXCEPT !.obs.n_counts = Some(Val(f.ret)[2])],
                      MaskIndex(Val(f.ret)[1])),
            TakeSeq(Val(f.ret)[2], MaskIndex(Val(f.ret)[1])),
            counts_per_cell_after, layers, use_rep, min_counts,
            NormalizeMatrix(s, TakeRows(adata.X, MaskIndex(Val(f.ret)[1])),
                            counts_per_cell_after,
                            Some(TakeSeq(Val(f.ret)[2], MaskIndex(Val(f.ret)[1]))),
                            FALSE, Some(1)))

\* normalize_per_cell(data, counts_per_cell_after, counts_per_cell,
\* key_n_counts='n_counts', copy, layers, use_rep, min_counts); after is
\* the argument counts_per_cell_after.
NormalizePerCell(s, d, after, counts_per_cell, copy, layers, use_rep, min_counts) ==
    IF IsAnnData(d)
    THEN NormalizeAnnData(s, d, copy,
            FilterCells(s, d.X, min_counts, None, None, None, FALSE),
            after, layers, use_rep, min_counts)
    ELSE NormalizeMatrix(s, d, after, counts_per_cell, copy, min_counts)

(***************************************************************************)
(* scale.  A scaled entry is num / sqrt(var), kept as the pair of the      *)
(* rationals num and var: var = 0 stands for the division by 0 the code    *)
(* performs on a column without variance (nan when num = 0, else +-inf).   *)
(* The arithmetic is exact, as for normalize_per_cell.                     *)
(***************************************************************************)
Scaled(num, var) == [num |-> num, var |-> var]

RatMul(p, q) == Rat(p[1] * q[1], p[2] * q[2])

RatSub(p, q) == RatAdd(p, <<-q[1], q[2]>>)

RatLess(p, q) == p[1] * q[2] < q[1] * p[2]

\* X.toarray()
ToArray(X) == [kind |-> "dense", rows |-> ToDenseRows(X), n_vars |-> X.n_vars]

\* X.multiply(X).mean(axis=0) * n, np.multiply(X, X).mean(axis=0) * n
ColSquares(m) ==
    IF IsSparse(m)
    THEN [j \in 1..m.n_vars |->
            SetSum({k \in 1..Len(m.data) : m.indices[k] = j},
                   [k \in 1..Len(m.data) |-> m.data[k] * m.data[k]])]
    ELSE [j \in 1..m.n_vars |->
            SeqSum([i \in 1..NRowsOf(m) |-> m.rows[i][j] * m.rows[i][j]])]

\* Line 969: mean = X.mean(axis=0)
ColMeans(X) == [j \in 1..X.n_vars |-> Rat(ColTotals(X)[j], NRowsOf(X))]

\* Line 977: var = (mean_sq - mean**2) * (n / (n - 1))
VarOf(mean_sq, mean, n) ==
    [j \in 1..Len(mean) |->
        RatMul(RatSub(mean_sq[j], RatMul(mean[j], mean[j])), Rat(n, n - 1))]

\* _get_mean_var(X)[1], lines 964-984
ColVars(X) ==
    VarOf([j \in 1..X.n_vars |-> Rat(ColSquares(X)[j], NRowsOf(X))],
          ColMeans(X), NRowsOf(X))

\* Line 997: sparsefuncs.inplace_column_scale(X, 1/scale) multiplies every
\* stored entry by the factor of its column.
ColumnScale(X, var) ==
    [X EXCEPT !.data = [k \in 1..Len(X.data) |->
                            Scaled(<<X.data[k], 1>>, var[X.indices[k]])]]

\* Lines 999-1000: X -= mean; X /= scale.
CenterAndScale(X, mean, var) ==
    [X EXCEPT !.rows = [i \in 1..Len(X.rows) |-> [j \in 1..X.n_vars |->
                            Scaled(RatSub(<<X.rows[i][j], 1>>, mean[j]), var[j])]]]

\* _scale(X, zero_center), lines 987-1000: what it leaves of X, and whether
\* it raised.  On one row, line 977 divides by zero.
InnerScale(X, zero_center) ==
    IF NRowsOf(X) = 1 THEN [raised |-> TRUE, X |-> X]
    ELSE IF IsSparse(X)
    THEN IF zero_center THEN [raised |-> TRUE, X |-> X]
         ELSE [raised |-> FALSE, X |-> ColumnScale(X, ColVars(X))]
    ELSE [raised |-> FALSE, X |-> CenterAndScale(X, ColMeans(X), ColVars(X))]

\* v > max_value for an entry v and max_value >= 0.
Exceeds(v, max_value) ==
    /\ v.num[1] > 0
    /\ RatLess(RatMul(<<max_value * max_value, 1>>, v.var), RatMul(v.num, v.num))

Clip(v, max_value) ==
    IF Exceeds(v, max_value) THEN Scaled(<<max_value, 1>>, <<1, 1>>) ELSE v

\* Line 788: X[X > max_value] = max_value.  The comparison brings a
\* compressed-row matrix to canonical format, as in Compared.
Clipped(X, max_value) ==
    IF IsNone(max_value) THEN X
    ELSE IF IsSparse(X)
    THEN [SortIndices(X) EXCEPT
            !.data = [k \in 1..Len(@) |-> Clip(@[k], Val(max_value))]]
    ELSE [X EXCEPT
            !.rows = [i \in 1..Len(@) |-> [j \in 1..X.n_vars |->
                        Clip(@[i][j], Val(max_value))]]]

\* Lines 787-789, f being the outcome of _scale on the matrix worked on:
\* data is the caller's matrix X0 when that one is a copy of it.
ScaleReturn(s, X0, copy, f, max_value) ==
    IF f.raised
    THEN [raised |-> TRUE, ret |-> None, data |-> IF copy THEN X0 ELSE f.X, state |-> s]
    ELSE IF copy
    THEN [raised |-> FALSE, ret |-> Some(Clipped(f.X, max_value)), data |-> X0, state |-> s]
    ELSE [raised |-> FALSE, ret |-> None, data |-> Clipped(f.X, max_value), state |-> s]

\* The claimed treatment of a sparse matrix with zero_center: rejected.
ScaleRejecting(s, X0, max_value) ==
    [raised |-> TRUE, ret |-> None, data |-> X0, state |-> s]

\* Lines 781-789 for a sparse matrix with zero_center: X = X.toarray() and
\* copy = True, so that the caller's matrix is left and the array returned.
ScaleDensifying(s, X0, max_value) ==
    ScaleReturn(s, X0, TRUE, InnerScale(ToArray(X0), TRUE), max_value)

\* Line 774: zero_center None is False on a sparse matrix, else True.
ZeroCenter(zero_center, X) ==
    IF IsNone(zero_center) THEN ~IsSparse(X) ELSE Val(zero_center)

\* scale on a matrix, lines 773-789.
ScaleMatrix(s, X, zero_center, max_value, copy) ==
    IF ZeroCenter(zero_center, X) /\ IsSparse(X)
    THEN ScaleDensifying(s, X, max_value)
    ELSE ScaleReturn(s, X, copy, InnerScale(X, ZeroCenter(zero_center, X)), max_value)

\* Lines 767-770: adata.X = adata.X.toarray() when zero_center holds and
\* adata.X is sparse.
ScaleDensified(adata, zero_center) ==
    IF ~IsNone(zero_center) /\ Val(zero_center) /\ IsSparse(adata.X)
    THEN [adata EXCEPT !.X = ToArray(@)]
    ELSE adata

\* Lines 764-772, inner being the outcome of scale(adata.X, copy=False) on
\* the dataset worked on.
ScaleAnnDataReturn(s, adata, copy, worked, inner) ==
    AnnDataReturn(s, adata, copy, inner.raised, [worked EXCEPT !.X = inner.data])

\* Lines 764-772 on the dataset worked on, densified.
ScaleWorked(s, adata, copy, worked, zero_center, max_value) ==
    ScaleAnnDataReturn(s, adata, copy, worked,
                       ScaleMatrix(s, worked.X, zero_center, max_value, FALSE))

\* scale(data, zero_center=True, max_value=None, copy=False)
Scale(s, d, zero_center, max_value, copy) ==
    IF IsAnnData(d)
    THEN ScaleWorked(s, d, copy, ScaleDensified(d, zero_center), zero_center, max_value)
    ELSE ScaleMatrix(s, d, zero_center, max_value, copy)

(***************************************************************************)
(* regress_out.  The dataset carries a numeric annotation n_counts and a   *)
(* categorical one, batch.  The fit of statsmodels' Gaussian GLM is the    *)
(* least-squares fit on the columns [ones, x], of least norm when these    *)
(* are linearly dependent; it raises PerfectSeparationError when the       *)
(* fitted values equal the column.  Arithmetic is exact, on rationals.     *)
(***************************************************************************)
RatDiv(p, q) ==
    IF q[1] < 0 THEN Rat(-(p[1] * q[2]), p[2] * (-q[1]))
    ELSE Rat(p[1] * q[2], p[2] * q[1])

RatSeq(y) == [i \in 1..Len(y) |-> <<y[i], 1>>]

RatMean(y) == RatDiv(RatSum(y), <<Len(y), 1>>)

\* n * sum(x * y) - sum(x) * sum(y)
Cross(x, y) ==
    RatSub(RatMul(<<Len(x), 1>>, RatSum([i \in 1..Len(x) |-> RatMul(x[i], y[i])])),
           RatMul(RatSum(x), RatSum(y)))

ResidualWith(y, x, mean_y, mean_x, slope) ==
    [i \in 1..Len(y) |->
        RatSub(RatSub(y[i], mean_y), RatMul(slope, RatSub(x[i], mean_x)))]

\* The slope of the least-squares line, 0 when x does not vary.
Slope(cross_xx, cross_xy) ==
    IF cross_xx = <<0, 1>> THEN <<0, 1>> ELSE RatDiv(cross_xy, cross_xx)

\* Line 731: sm.GLM(y, [ones, x], family=Gaussian()).fit().resid_response
Residual(y, x) ==
    ResidualWith(y, x, RatMean(y), RatMean(x), Slope(Cross(x, x), Cross(x, y)))

\* Every fit taken for an ordinary one: no PerfectSeparationError.
FitNeverSeparated(resid) == [column |-> resid, warned |-> FALSE]

\* Lines 730-735: the fit raises PerfectSeparationError when it leaves no
\* residual; the column is then set to zeros and a warning is logged.
FitResult(resid) ==
    IF \A i \in 1..Len(resid) : resid[i] = <<0, 1>>
    THEN [column |-> [i \in 1..Len(resid) |-> <<0, 1>>], warned |-> TRUE]
    ELSE [column |-> resid, warned |-> FALSE]

\* Lines 725-737, for the column col_index of a task.
FitColumn(task, col_index) ==
    FitResult(Residual(task.data_chunk[col_index],
                       IF task.variable_is_categorical THEN task.regres[col_index]
                       ELSE task.regres))

\* Line 739: np.vstack(responses_chunk_list), with the warnings logged.
ChunkOf(fits) ==
    [rows   |-> [k \in 1..Len(fits) |-> fits[k].column],
     warned |-> [k \in 1..Len(fits) |-> fits[k].warned]]

\* _regress_out_chunk(data), lines 714-739
RegressOutChunk(task) ==
    ChunkOf([col_index \in 1..Len(task.data_chunk) |-> FitColumn(task, col_index)])

\* np.ceil(a / b) for a >= 0 and b # 0
CeilDiv(a, b) == IF b > 0 THEN (a + b - 1) \div b ELSE 0 - (a \div (0 - b))

\* Line 680
LenChunk(n_vars, n_jobs) == CeilDiv(Min(1000, n_vars), n_jobs)

\* Line 681
NChunks(n_vars, n_jobs) == CeilDiv(n_vars, LenChunk(n_vars, n_jobs))

\* np.array_split of n columns in n_chunks sections: the columns of section
\* c (1-based); the first n % n_chunks sections have one column more.
Section(n, n_chunks, c) ==
    [k \in 1..(n \div n_chunks + (IF c <= n % n_chunks THEN 1 ELSE 0)) |->
        (c - 1) * (n \div n_chunks) + Min(c - 1, n % n_chunks) + k]

\* Line 686: np.array_split(adata.X, n_chunks, axis=1), as the columns of
\* each section.
Sections(n, n_chunks) == [c \in 1..n_chunks |-> Section(n, n_chunks, c)]

\* Column j of a dense matrix, as rationals.
ColumnOf(X, j) == [i \in 1..Len(X.rows) |-> <<X.rows[i][j], 1>>]

\* The rows of the category of row i.
Members(category, i) == {r \in 1..Len(category) : category[r] = category[i]}

\* Lines 663-667: the mean of column j within the category of each row.
CategoryMeans(X, j, category) ==
    [i \in 1..Len(category) |->
        Rat(SetSum(Members(category, i), [r \in 1..Len(category) |-> X.rows[r][j]]),
            Cardinality(Members(category, i)))]

\* Lines 683-696: the task of the columns cols.
Task(adata, cols, variable_is_categorical) ==
    [cols   |-> cols,
     data_chunk |-> [k \in 1..Len(cols) |-> ColumnOf(adata.X, cols[k])],
     regres |-> IF variable_is_categorical
                THEN [k \in 1..Len(cols) |->
                        CategoryMeans(adata.X, cols[k], Val(adata.obs.batch))]
                ELSE RatSeq(Val(adata.obs.n_counts)),
     variable_is_categorical |-> variable_is_categorical]

\* Lines 680-696
Tasks(adata, n_jobs, variable_is_categorical) ==
    [c \in 1..NChunks(adata.X.n_vars, n_jobs) |->
        Task(adata, Section(adata.X.n_vars, NChunks(adata.X.n_vars, n_jobs), c),
             variable_is_categorical)]

Transpose(rows) == [i \in 1..Len(rows[1]) |-> [j \in 1..Len(rows) |-> rows[j][i]]]

\* The chunks stacked in the order they were finished in.
StackedAsFinished(res, order) ==
    [rows   |-> Transpose(Concat([c \in 1..Len(order) |-> res[order[c]].rows])),
     warned |-> Concat([c \in 1..Len(order) |-> res[order[c]].warned])]

\* Line 709: np.vstack(res).T, res holding the chunks in the order of the
\* tasks, whatever order they were finished in.
Stacked(res, order) ==
    [rows   |-> Transpose(Concat([c \in 1..Len(res) |-> res[c].rows])),
     warned |-> Concat([c \in 1..Len(res) |-> res[c].warned])]

\* Lines 648-649
RegressDensified(adata) ==
    IF IsSparse(adata.X) THEN [adata EXCEPT !.X = ToArray(@)] ELSE adata

\* Lines 655-661: the first key names a categorical annotation, and is not
\* the only key.
RegressKeysError(keys) == keys[1] = "batch" /\ Len(keys) > 1

\* Lines 680-686, the errors n_jobs can raise.  n_jobs = 0: the division of
\* line 680 raises ZeroDivisionError.  n_jobs < 0: len_chunk is negative or
\* 0.  When it is negative so is n_chunks, and np.array_split raises
\* ValueError.  When it is 0, line 681 divides by a numpy 0: the quotient
\* is inf, and what astype(int) makes of it is not defined; the builds give
\* the smallest integer (np.array_split raises ValueError) or the largest
\* (np.array_split runs out of memory).
SplitErrors(n_vars, n_jobs) ==
    IF n_jobs = 0 THEN {"ZeroDivisionError"}
    ELSE IF n_jobs > 0 THEN {}
    ELSE IF LenChunk(n_vars, n_jobs) = 0 THEN {"ValueError", "MemoryError"}
    ELSE IF NChunks(n_vars, n_jobs) <= 0 THEN {"ValueError"}
    ELSE {}

\* Line 709: adata.X = np.vstack(res).T
RegressAssigned(worked, stacked) == [worked EXCEPT !.X.rows = stacked.rows]

\* Line 656: the first key names the categorical annotation.
IsCategorical(keys) == keys[1] = "batch"

(***************************************************************************)
(* log1p and sqrt.  np.log1p(x) and np.sqrt(x) are kept as terms: the      *)
(* function applied and the entry it was applied to.                       *)
(***************************************************************************)
Entry(fn, x) == [fn |-> fn, of |-> x]

\* fn applied to every entry of a dense matrix, to every stored entry of a
\* sparse one: np.log1p(X, out=X), np.log1p(X.data, out=X.data),
\* np.sqrt(X), X.sqrt().
MapEntries(X, fn) ==
    IF IsSparse(X)
    THEN [X EXCEPT !.data = [k \in 1..Len(X.data) |-> Entry(fn, X.data[k])]]
    ELSE [X EXCEPT !.rows = [i \in 1..Len(X.rows) |->
                                [j \in 1..X.n_vars |-> Entry(fn, X.rows[i][j])]]]

\* X[start:end] = fn(X[start:end]) on a dense matrix, rows 1-based.
MapRows(X, fn, start, end) ==
    [X EXCEPT !.rows = [i \in 1..Len(X.rows) |->
                            IF start <= i /\ i <= end
                            THEN [j \in 1..X.n_vars |-> Entry(fn, X.rows[i][j])]
                            ELSE X.rows[i]]]

\* for chunk, start, end in adata.chunked_X(chunk_size): the chunks of
\* chunk_size rows from row start on, the last one possibly shorter.
RECURSIVE MapChunksFrom(_, _, _, _)
MapChunksFrom(X, fn, chunk_size, start) ==
    IF start > Len(X.rows) THEN X
    ELSE MapChunksFrom(MapRows(X, fn, start, Min(start + chunk_size - 1, Len(X.rows))),
                       fn, chunk_size, start + chunk_size)

\* Lines 271-276 and 303-307: the matrix of the dataset, in chunks of rows
\* or at once.
MapX(X, fn, chunked, chunk_size) ==
    IF chunked THEN MapChunksFrom(X, fn, Val(chunk_size), 1) ELSE MapEntries(X, fn)

\* Lines 260-280, worked being the object as _log1p leaves it.
Log1pReturn(s, d, copy, worked) ==
    [raised |-> FALSE,
     ret    |-> IF copy THEN Some(worked) ELSE None,
     data   |-> IF copy THEN d ELSE worked,
     state  |-> s]

\* log1p(data, copy=False, chunked=False, chunk_size=None)
Log1p(s, d, copy, chunked, chunk_size) ==
    IF IsAnnData(d)
    THEN Log1pReturn(s, d, copy, [d EXCEPT !.X = MapX(@, "log1p", chunked, chunk_size)])
    ELSE Log1pReturn(s, d, copy, MapEntries(d, "log1p"))

\* Lines 309-313: the roots are returned as a new matrix, whatever copy.
SqrtMatrix(s, X, copy) ==
    [raised |-> FALSE, ret |-> Some(MapEntries(X, "sqrt")), data |-> X, state |-> s]

\* sqrt(data, copy=False, chunked=False, chunk_size=None)
Sqrt(s, d, copy, chunked, chunk_size) ==
    IF IsAnnData(d)
    THEN AnnDataReturn(s, d, copy, FALSE,
                       [d EXCEPT !.X = MapX(@, "sqrt", chunked, chunk_size)])
    ELSE SqrtMatrix(s, d, copy)

(***************************************************************************)
(* graph_clustering (tools/graph_clustering.py).  The dataset carries the  *)
(* neighborhood graph in uns and the categorical annotation batch.  The    *)
(* partition is the clustering library's: any assignment of the nodes to   *)
(* groups 0, 1, ... with no group left empty.                              *)
(***************************************************************************)
GroupNames == <<"0", "1", "2", "3", "4", "5">>

\* groups.astype('U')
AsText(g) == GroupNames[g + 1]

\* part.membership for n nodes.
Memberships(n) ==
    { g \in [1..n -> 0..(n - 1)] :
        \A k \in 0..(n - 1) : (\E i \in 1..n : g[i] > k) => (\E i \in 1..n : g[i] = k) }

\* '-'.join(categories)
RECURSIVE Join(_)
Join(categories) ==
    IF Len(categories) = 1 THEN categories[1]
    ELSE categories[1] \o "-" \o Join(Tail(categories))

\* Line 89: adata.obs[restrict_key].isin(restrict_categories), all rows
\* when restrict_to is None.
RestrictIndices(adata, restrict_to) ==
    [i \in 1..NRowsOf(adata.X) |->
        IsNone(restrict_to)
            \/ \E c \in 1..Len(Val(restrict_to)[2]) :
                    Val(adata.obs[Val(restrict_to)[1]])[i] = Val(restrict_to)[2][c]]

\* The number of nodes of the graph that is clustered.
NNodes(adata, restrict_to) ==
    Cardinality({i \in 1..NRowsOf(adata.X) : RestrictIndices(adata, restrict_to)[i]})

\* Lines 70-72
PartitionTypeError(flavor, partition_type) ==
    flavor \notin {"vtraag", "leiden"} /\ ~IsNone(partition_type)

\* Lines 74-76, adjacency not being passed
NeighborsError(adata) == IsNone(adata.uns.neighbors)

\* Lines 84-88: a category of restrict_to that the annotation does not have.
RestrictError(adata, restrict_to) ==
    /\ ~IsNone(restrict_to)
    /\ \E c \in 1..Len(Val(restrict_to)[2]) :
          \A i \in 1..NRowsOf(adata.X) :
              Val(adata.obs[Val(restrict_to)[1]])[i] # Val(restrict_to)[2][c]

\* Lines 145-146
FlavorError(flavor) == flavor \notin {"vtraag", "igraph", "leiden", "taynaud"}

\* Lines 149-154: the group of every row, as text.
Clustering(groups) == [i \in 1..Len(groups) |-> AsText(groups[i])]

\* Every row given the prefix: the rows of restrict_indices before their
\* group, the others before the label they have.
PrefixedClustering(all_groups, restrict_indices, prefix, groups) ==
    [i \in 1..Len(all_groups) |->
        IF restrict_indices[i]
        THEN prefix \o AsText(groups[Cardinality({q \in 1..i : restrict_indices[q]})])
        ELSE prefix \o all_groups[i]]

\* Lines 156-163: a row of restrict_indices gets the prefix and its group,
\* any other row the label it has under restrict_key.
RestrictedClustering(all_groups, restrict_indices, prefix, groups) ==
    [i \in 1..Len(all_groups) |->
        IF restrict_indices[i]
        THEN prefix \o AsText(groups[Cardinality({q \in 1..i : restrict_indices[q]})])
        ELSE all_groups[i]]

\* Lines 151 and 156: the key of the annotation added.
KeyAdded(key_added, restrict_to) ==
    IF ~IsNone(key_added) THEN Val(key_added)
    ELSE IF IsNone(restrict_to) THEN "clustering"
    ELSE Val(restrict_to)[1] \o "_R"

\* adata.obs[key] = column
WithObs(adata, key, column) ==
    [adata EXCEPT !.obs = [k \in DOMAIN adata.obs \cup {key} |->
                                IF k = key THEN Some(column) ELSE adata.obs[k]]]

\* Lines 147-165: the annotation added and the parameters stored; line 119
\* with flavor 'leiden'.
Clustered(adata, resolution, random_state, restrict_to, key_added, flavor, groups) ==
    [WithObs(adata, KeyAdded(key_added, restrict_to),
             IF IsNone(restrict_to) THEN Clustering(groups)
             ELSE RestrictedClustering(Val(adata.obs[Val(restrict_to)[1]]),
                                       RestrictIndices(adata, restrict_to),
                                       Join(Val(restrict_to)[2]) \o ",", groups))
     EXCEPT !.uns.clustering =
                Some([params |-> [resolution |-> resolution, random_state |-> random_state]]),
            !.uns.leiden_quality =
                IF flavor = "leiden" THEN Some([quality |-> groups]) ELSE @]

\* Lines 73 and 166-169: the function ends without a return statement, so
\* that None is returned with copy too, and the copy worked on is dropped.
ClusteringReturn(s, adata, copy, worked) ==
    [raised |-> FALSE, ret |-> None, data |-> IF copy THEN adata ELSE worked, state |-> s,
     worked |-> Some(worked)]

\* graph_clustering(adata, resolution, random_state, restrict_to, key_added,
\* adjacency=None, flavor, directed, use_weights, partition_type,
\* partition_kwargs, copy), groups being the partition found.
GraphClustering(s, adata, resolution, random_state, restrict_to, key_added, flavor, partition_type, copy, groups) ==
    IF \/ PartitionTypeError(flavor, partition_type)
       \/ NeighborsError(adata)
       \/ RestrictError(adata, restrict_to)
       \/ FlavorError(flavor)
    THEN [raised |-> TRUE, ret |-> None, data |-> adata, state |-> s, worked |-> None]
    ELSE ClusteringReturn(s, adata, copy,
            Clustered(adata, resolution, random_state, restrict_to, key_added, flavor, groups))

(***************************************************************************)
(* The calls.  A call records its name and arguments (the data it was      *)
(* handed among them), whether it raised and what it returned; the         *)
(* caller's data object and the generator are left as the call leaves      *)
(* them.                                                                   *)
(***************************************************************************)
NoCall == [op |-> "none"]

Returns(op, args, r) ==
    /\ call' = [op |-> op, args |-> args, raised |-> r.raised, ret |-> r.ret]
    /\ data' = r.data
    /\ rng' = r.state

Fractions == { <<p, 2>> : p \in -1..3 }

\* downsample_cell on a vector: the caller's array is the buffer.
CellOnArray(r) ==
    [raised |-> r.raised, ret |-> r.ret, data |-> Array(r.buf), state |-> r.state]

CallDownsampleCell ==
    /\ call = NoCall
    /\ data.kind = "array"
    /\ \E target \in Targets, seed \in Seeds, replace \in BOOLEAN, inplace \in BOOLEAN :
        Returns("downsample_cell",
                [col |-> data.vals, target |-> target, random_state |-> seed,
                 replace |-> replace, inplace |-> inplace],
                CellOnArray(DownsampleCell(rng, data.vals, target, seed, replace, inplace)))

CallSubsample ==
    /\ call = NoCall
    /\ \E fraction \in Optional(Fractions), n_obs \in Optional(-1..(NObsOf(data) + 1)),
          seed \in Seeds, copy \in BOOLEAN :
        Returns("subsample",
                [data |-> data, fraction |-> fraction, n_obs |-> n_obs,
                 random_state |-> seed, copy |-> copy],
                Subsample(rng, data, fraction, n_obs, seed, copy))

CallDownsampleCounts ==
    /\ call = NoCall
    /\ IsAnnData(data)
    /\ \E target \in Targets, seed \in Seeds, replace \in BOOLEAN, copy \in BOOLEAN :
        Returns("downsample_counts",
                [data |-> data, target_counts |-> target, random_state |-> seed,
                 replace |-> replace, copy |-> copy],
                DownsampleCounts(rng, data, target, seed, replace, copy))

\* The randomized functions called on a vector, from any generator state.
InitSampling ==
    /\ data \in { Array(v) : v \in CountVectors }
    /\ rng \in RngStates
    /\ call = NoCall

NextSampling == CallDownsampleCell \/ CallSubsample

SpecSampling == InitSampling /\ [][NextSampling]_vars

\* downsample_counts called on a dataset, the generator fresh or as an
\* earlier seeded call left it.
InitDownsample ==
    /\ data \in { AnnData(X, <<>>) : X \in Matrices }
    /\ rng \in {0, RngSeed(0)}
    /\ call = NoCall

NextDownsample == CallDownsampleCounts

SpecDownsample == InitDownsample /\ [][NextDownsample]_vars

\* The options of a filter call: the ones in given carry the bound.
MaxBound == 3
Bounds == 0..MaxBound
Options == {"min_counts", "min_number", "max_counts", "max_number"}
Given(given, name, bound) == IF name \in given THEN Some(bound) ELSE None

CallFilterCells ==
    /\ call = NoCall
    /\ data.kind # "array"
    /\ \E given \in SUBSET Options, bound \in Bounds,
          copy \in (IF IsAnnData(data) THEN BOOLEAN ELSE {FALSE}) :
        Returns("filter_cells",
                [data |-> data,
                 min_counts |-> Given(given, "min_counts", bound),
                 min_genes  |-> Given(given, "min_number", bound),
                 max_counts |-> Given(given, "max_counts", bound),
                 max_genes  |-> Given(given, "max_number", bound),
                 copy |-> copy],
                FilterCells(rng, data,
                            Given(given, "min_counts", bound),
                            Given(given, "min_number", bound),
                            Given(given, "max_counts", bound),
                            Given(given, "max_number", bound), copy))

CallFilterGenes ==
    /\ call = NoCall
    /\ data.kind # "array"
    /\ \E given \in SUBSET Options, bound \in Bounds,
          copy \in (IF IsAnnData(data) THEN BOOLEAN ELSE {FALSE}) :
        Returns("filter_genes",
                [data |-> data,
                 min_counts |-> Given(given, "min_counts", bound),
                 min_cells  |-> Given(given, "min_number", bound),
                 max_counts |-> Given(given, "max_counts", bound),
                 max_cells  |-> Given(given, "max_number", bound),
                 copy |-> copy],
                FilterGenes(rng, data,
                            Given(given, "min_counts", bound),
                            Given(given, "min_number", bound),
                            Given(given, "max_counts", bound),
                            Given(given, "max_number", bound), copy))

\* The filters called on a matrix or on a dataset.
InitFilter ==
    /\ data \in Matrices \cup { AnnData(X, <<>>) : X \in Matrices }
    /\ rng = 0
    /\ call = NoCall

NextFilter == CallFilterCells \/ CallFilterGenes

SpecFilter == InitFilter /\ [][NextFilter]_vars

\* normalize_per_cell records, beside what it returns, the targets it used:
\* the value of counts_per_cell_after at line 570, for X and for each layer.
NormalizeReturns(args, r, layer_after) ==
    /\ call' = [op |-> "normalize_per_cell", args |-> args, raised |-> r.raised,
                ret |-> r.ret, after |-> r.after, layer_after |-> layer_after]
    /\ data' = r.data
    /\ rng' = r.state

MaxAfter == 2
MaxMinCounts == 2
Afters == Optional({ <<t, 1>> : t \in 0..MaxAfter })
MinCounts == Optional(0..MaxMinCounts)
UseReps == {"none", "after", "X", "Y"}
AllLayers == [all |-> TRUE, names |-> <<>>]
NoLayers == [all |-> FALSE, names |-> <<>>]

\* The values of layers and use_rep that tell calls apart: on a dataset
\* without layers 'all' names what [] names, and use_rep only decides
\* whether the call raises.
LayersArgs(adata) == IF adata.layers = <<>> THEN {NoLayers} ELSE {NoLayers, AllLayers}
UseRepArgs(adata) == IF adata.layers = <<>> THEN {"none", "Y"} ELSE UseReps

CallNormalizeMatrix ==
    /\ call = NoCall
    /\ data.kind \in {"dense", "csr"}
    /\ \E after \in Afters, counts \in {None, Some(RowTotals(data))}, copy \in BOOLEAN,
          min_counts \in MinCounts :
        NormalizeReturns([data |-> data, counts_per_cell_after |-> after,
                          counts_per_cell |-> counts, copy |-> copy, layers |-> NoLayers,
                          use_rep |-> "none", min_counts |-> min_counts],
                         NormalizePerCell(rng, data, after, counts, copy, NoLayers, "none",
                                          min_counts),
                         <<>>)

NormalizeAnnDataReturns(args, r) == NormalizeReturns(args, r, r.layer_after)

CallNormalizeAnnData ==
    /\ call = NoCall
    /\ IsAnnData(data)
    /\ \E after \in Afters, copy \in BOOLEAN, layers \in LayersArgs(data),
          use_rep \in UseRepArgs(data), min_counts \in MinCounts :
        NormalizeAnnDataReturns(
            [data |-> data, counts_per_cell_after |-> after, counts_per_cell |-> None,
             copy |-> copy, layers |-> layers, use_rep |-> use_rep,
             min_counts |-> min_counts],
            NormalizePerCell(rng, data, after, None, copy, layers, use_rep, min_counts))

\* normalize_per_cell called on a matrix or on a dataset without layers.
InitNormalize ==
    /\ data \in Matrices \cup { AnnData(X, <<>>) : X \in Matrices }
    /\ rng = 0
    /\ call = NoCall

NextNormalize == CallNormalizeMatrix \/ CallNormalizeAnnData

SpecNormalize == InitNormalize /\ [][NextNormalize]_vars

\* normalize_per_cell called on a dense dataset with one dense layer.
\* The layers a dataset is given beside X: the counts of X with the cells
\* in the opposite order, and the counts of X without those of the last
\* cell.
LayersOf(X) ==
    { Dense(Reverse(X.rows)),
      Dense([i \in 1..NObs |-> IF i = NObs THEN [j \in 1..NVars |-> 0] ELSE X.rows[i]]) }

InitLayers ==
    /\ data \in UNION { { AnnData(X, <<L>>) : L \in LayersOf(X) } : X \in DenseMatrices }
    /\ rng = 0
    /\ call = NoCall

NextLayers == CallNormalizeAnnData

SpecLayers == InitLayers /\ [][NextLayers]_vars

\* scale called on a matrix or on a dataset without layers.
MaxMaxValue == 1

ZeroCenters == Optional(BOOLEAN)

MaxValues == Optional(1..MaxMaxValue)

CallScale ==
    /\ call = NoCall
    /\ \E zero_center \in ZeroCenters, max_value \in MaxValues, copy \in BOOLEAN :
          Returns("scale",
                  [data |-> data, zero_center |-> zero_center,
                   max_value |-> max_value, copy |-> copy],
                  Scale(rng, data, zero_center, max_value, copy))

InitScale ==
    /\ data \in Matrices \cup { AnnData(X, <<>>) : X \in Matrices }
    /\ rng = 0
    /\ call = NoCall

NextScale == CallScale

SpecScale == InitScale /\ [][NextScale]_vars

(***************************************************************************)
(* regress_out called on a dataset of NCells x NGenes.  A call that uses   *)
(* the pool stays in progress (pc = "pool") while the workers finish the   *)
(* tasks, one at a time and in any order; pool_starts tells whether        *)
(* multiprocessing.Pool(n_jobs) succeeds.                                  *)
(***************************************************************************)
NCells == 3
NGenes == 3
MaxJobs == 2

\* n_jobs: from the negative values that round len_chunk to 0, to MaxJobs.
JobCounts == (0 - NGenes - 1)..MaxJobs

RegressKeys == { <<"n_counts">>, <<"batch">>, <<"batch", "n_counts">> }

\* What the call hands back, line 711, with what it did: the columns of
\* every task, the order the tasks were finished in, the columns a warning
\* was logged for, and whether the pool was used.
RegressReturns(args, error, worked, tasks, order, warned, pooled) ==
    /\ call' = [op |-> "regress_out", pc |-> "done", args |-> args,
                raised |-> error # "none", error |-> error,
                ret |-> IF args.copy /\ error = "none" THEN Some(worked) ELSE None,
                sections |-> [c \in 1..Len(tasks) |-> tasks[c].cols],
                order |-> order, warned |-> warned, pooled |-> pooled]
    /\ data' = IF args.copy THEN args.data ELSE worked
    /\ rng' = rng

\* Lines 709-711
RegressStacked(args, worked, tasks, stacked, order, pooled) ==
    RegressReturns(args, "none", RegressAssigned(worked, stacked), tasks, order,
                   stacked.warned, pooled)

\* Lines 698-705: the pool when n_jobs > 1 and n_chunks > 1, else map.
RegressDispatch(args, worked, tasks) ==
    IF args.n_jobs > 1 /\ Len(tasks) > 1
    THEN IF args.pool_starts
         THEN /\ call' = [op |-> "regress_out", pc |-> "pool", args |-> args,
                          worked |-> worked, tasks |-> tasks,
                          res |-> [c \in 1..Len(tasks) |-> None], order |-> <<>>]
              /\ data' = IF args.copy THEN args.data ELSE worked
              /\ rng' = rng
         ELSE RegressReturns(args, "OSError", worked, tasks, <<>>, <<>>, TRUE)
    ELSE RegressStacked(args, worked, tasks,
            Stacked([c \in 1..Len(tasks) |-> RegressOutChunk(tasks[c])],
                    [c \in 1..Len(tasks) |-> c]),
            [c \in 1..Len(tasks) |-> c], FALSE)

\* Lines 644-696, worked being the dataset worked on, densified.
RegressBegin(args, worked) ==
    IF RegressKeysError(args.keys)
    THEN RegressReturns(args, "ValueError", worked, <<>>, <<>>, <<>>, FALSE)
    ELSE IF SplitErrors(worked.X.n_vars, args.n_jobs) # {}
    THEN \E error \in SplitErrors(worked.X.n_vars, args.n_jobs) :
            RegressReturns(args, error, worked, <<>>, <<>>, <<>>, FALSE)
    ELSE RegressDispatch(args, worked, Tasks(worked, args.n_jobs, IsCategorical(args.keys)))

\* regress_out(adata, keys, n_jobs, copy)
CallRegressOut ==
    /\ call = NoCall
    /\ IsAnnData(data)
    /\ \E keys \in RegressKeys, n_jobs \in JobCounts, copy \in BOOLEAN,
          pool_starts \in BOOLEAN :
          RegressBegin([data |-> data, keys |-> keys, n_jobs |-> n_jobs,
                        copy |-> copy, pool_starts |-> pool_starts],
                       RegressDensified(data))

\* A worker of the pool finishes a task.
PoolWorker ==
    /\ call.op = "regress_out"
    /\ call.pc = "pool"
    /\ \E c \in 1..Len(call.tasks) :
          /\ IsNone(call.res[c])
          /\ call' = [call EXCEPT !.res[c] = Some(RegressOutChunk(call.tasks[c])),
                                  !.order = Append(@, c)]
    /\ UNCHANGED <<data, rng>>

\* Lines 701-702: map_async(...).get() hands back the results of all
\* tasks, in the order of the tasks.
PoolCollect ==
    /\ call.op = "regress_out"
    /\ call.pc = "pool"
    /\ \A c \in 1..Len(call.tasks) : ~IsNone(call.res[c])
    /\ RegressStacked(call.args, call.worked, call.tasks,
            Stacked([c \in 1..Len(call.tasks) |-> Val(call.res[c])], call.order),
            call.order, TRUE)

RegressData(X, n_counts, batch) ==
    [AnnData(X, <<>>) EXCEPT
        !.obs = [n_counts |-> Some(n_counts), n_genes |-> None, batch |-> Some(batch)]]

\* The columns of the input matrices: all zero, a count in the first
\* cell only, or a count growing with the cell.
ColumnPatterns ==
    { [i \in 1..NCells |-> 0],
      [i \in 1..NCells |-> IF i = 1 THEN 1 ELSE 0],
      [i \in 1..NCells |-> i] }

RegressRows == { Transpose(columns) : columns \in [1..NGenes -> ColumnPatterns] }

RegressMatrices ==
    { [kind |-> "dense", rows |-> r, n_vars |-> NGenes] : r \in RegressRows }
    \cup { [CsrOf(r, FALSE, FALSE) EXCEPT !.n_vars = NGenes] : r \in RegressRows }

\* n_counts is the same for every cell, or grows with the cell.
NCountsColumns == { [i \in 1..NCells |-> 1], [i \in 1..NCells |-> i] }

\* The first cell is of batch "a", the others of batch "b".
BatchColumns == { [i \in 1..NCells |-> IF i = 1 THEN "a" ELSE "b"] }

InitRegress ==
    /\ data \in { RegressData(X, n_counts, batch) :
                    X \in RegressMatrices, n_counts \in NCountsColumns,
                    batch \in BatchColumns }
    /\ rng = 0
    /\ call = NoCall

NextRegress == CallRegressOut \/ PoolWorker \/ PoolCollect

SpecRegress == InitRegress /\ [][NextRegress]_vars

(***************************************************************************)
(* Every operation with a copy flag, called on a matrix or on a dataset    *)
(* that has the annotations and the neighborhood graph the operations      *)
(* read.                                                                   *)
(***************************************************************************)
MaxFrameTotal == 2

\* chunked and chunk_size: chunks are taken of a dense matrix of a dataset.
ChunkArgs(d) ==
    {[chunked |-> FALSE, chunk_size |-> None]}
    \cup (IF IsAnnData(d) /\ ~IsSparse(d.X)
          THEN {[chunked |-> TRUE, chunk_size |-> Some(c)] : c \in 1..NRowsOf(d.X)}
          ELSE {})

CallLog1p ==
    /\ call = NoCall
    /\ data.kind # "array"
    /\ \E copy \in BOOLEAN, c \in ChunkArgs(data) :
          Returns("log1p",
                  [data |-> data, copy |-> copy, chunked |-> c.chunked,
                   chunk_size |-> c.chunk_size],
                  Log1p(rng, data, copy, c.chunked, c.chunk_size))

CallSqrt ==
    /\ call = NoCall
    /\ data.kind # "array"
    /\ \E copy \in BOOLEAN, c \in ChunkArgs(data) :
          Returns("sqrt",
                  [data |-> data, copy |-> copy, chunked |-> c.chunked,
                   chunk_size |-> c.chunk_size],
                  Sqrt(rng, data, copy, c.chunked, c.chunk_size))

RestrictTos ==
    {None, Some(<<"batch", <<"a">>>>), Some(<<"batch", <<"a", "b">>>>),
     Some(<<"batch", <<"c">>>>)}

Flavors == {"vtraag", "igraph", "leiden", "taynaud", "other"}

\* The annotation named by key_added: none, a new one, or the one
\* restrict_to names.
KeysAdded == {None, Some("groups"), Some("batch")}

\* What the call hands back, with the dataset the function worked on: the
\* caller's, or with copy=True the copy that is dropped at the end.
ClusteringReturns(args, r) ==
    /\ call' = [op |-> "graph_clustering", args |-> args, raised |-> r.raised,
                ret |-> r.ret, worked |-> r.worked]
    /\ data' = r.data
    /\ rng' = r.state

CallGraphClustering ==
    /\ call = NoCall
    /\ IsAnnData(data)
    /\ \E restrict_to \in RestrictTos, key_added \in KeysAdded,
          flavor \in Flavors, partition_type \in {None, Some("given")}, copy \in BOOLEAN :
          \E groups \in Memberships(NNodes(data, restrict_to)) :
              ClusteringReturns(
                      [data |-> data, resolution |-> None, random_state |-> 0,
                       restrict_to |-> restrict_to, key_added |-> key_added,
                       flavor |-> flavor, partition_type |-> partition_type,
                       copy |-> copy, groups |-> groups],
                      GraphClustering(rng, data, None, 0, restrict_to, key_added, flavor,
                                      partition_type, copy, groups))

\* adata.uns['neighbors']['connectivities']: every cell next to every other.
Connectivities(n) == [i \in 1..n |-> [j \in 1..n |-> IF i = j THEN 0 ELSE 1]]

\* A dataset with the annotations n_counts and batch, and with or without
\* the neighborhood graph.
FrameData(X, neighbors) ==
    [kind |-> "anndata", X |-> X, layers |-> <<>>,
     obs  |-> [n_counts |-> Some([i \in 1..NRowsOf(X) |-> i]),
               n_genes  |-> None,
               batch    |-> Some([i \in 1..NRowsOf(X) |-> IF i = 1 THEN "a" ELSE "b"])],
     var  |-> NoVar,
     uns  |-> [neighbors |-> neighbors, clustering |-> None, leiden_quality |-> None]]

FrameRows == { Reshape(f, NVars) : f \in VectorsUpTo(NObs * NVars, MaxFrameTotal) }

\* Dense matrices, and sparse ones that store their zeros, a row's entries
\* in descending column order.
FrameMatrices == { Dense(r) : r \in FrameRows } \cup { CsrOf(r, TRUE, TRUE) : r \in FrameRows }

InitFrame ==
    /\ data \in FrameMatrices
                \cup { FrameData(X, neighbors) :
                         X \in FrameMatrices, neighbors \in {None, Some(Connectivities(NObs))} }
    /\ rng = 0
    /\ call = NoCall

NextFrame ==
    \/ CallFilterCells
    \/ CallFilterGenes
    \/ CallLog1p
    \/ CallSqrt
    \/ CallNormalizeMatrix
    \/ CallNormalizeAnnData
    \/ CallScale
    \/ CallRegressOut
    \/ PoolWorker
    \/ PoolCollect
    \/ CallSubsample
    \/ CallDownsampleCounts
    \/ CallGraphClustering

SpecFrame == InitFrame /\ [][NextFrame]_vars

\* graph_clustering called on datasets of every labelling of the cells
\* with the batches 'a' and 'b', with and without the neighborhood graph.
\* The matrix plays no part in the call: it holds no counts.
ClusterData(batch, neighbors) ==
    [FrameData(Dense([i \in 1..NObs |-> Zeros(NVars)]), neighbors)
        EXCEPT !.obs.batch = Some(batch)]

InitClustering ==
    /\ data \in { ClusterData(batch, neighbors) :
                    batch \in [1..NObs -> {"a", "b"}],
                    neighbors \in {None, Some(Connectivities(NObs))} }
    /\ rng = 0
    /\ call = NoCall

NextClustering == CallGraphClustering

SpecClustering == InitClustering /\ [][NextClustering]_vars

(***************************************************************************)
(* The split of the columns of regress_out, lines 680-686, on its own: the *)
(* input is the number of columns of adata.X, the call chooses n_jobs.     *)
(***************************************************************************)
MaxFeatures == 12  \* columns of adata.X: 1..MaxFeatures
MaxWorkers == 8    \* n_jobs: 1..MaxWorkers

Shape(n_vars) == [kind |-> "shape", n_vars |-> n_vars]

SplitReturns(args, len_chunk, n_chunks) ==
    /\ call' = [op |-> "split", pc |-> "done", args |-> args, raised |-> FALSE,
                len_chunk |-> len_chunk, n_chunks |-> n_chunks,
                ret |-> Sections(args.n_vars, n_chunks)]
    /\ UNCHANGED <<data, rng>>

CallSplit ==
    /\ call = NoCall
    /\ data.kind = "shape"
    /\ \E n_jobs \in 1..MaxWorkers :
          SplitReturns([n_vars |-> data.n_vars, n_jobs |-> n_jobs],
                       LenChunk(data.n_vars, n_jobs), NChunks(data.n_vars, n_jobs))

InitSplit ==
    /\ data \in { Shape(n_vars) : n_vars \in 1..MaxFeatures }
    /\ rng = 0
    /\ call = NoCall

NextSplit == CallSplit

SpecSplit == InitSplit /\ [][NextSplit]_vars

(***************************************************************************)
(* Properties of downsample_cell and subsample (SpecSampling).             *)
(***************************************************************************)

\* C1: for a count vector whose total exceeds the target, for every seed and
\* for replace true and false, downsample_cell returns a vector of the same
\* length, with no negative entry, summing to exactly the target, and 0
\* wherever the input was 0.
C1_DownsampleCellSumsToTarget ==
    (call.op = "downsample_cell" /\ SeqSum(call.args.col) > call.args.target) =>
        /\ ~call.raised
        /\ Len(call.ret) = Len(call.args.col)
        /\ \A i \in 1..Len(call.ret) :
              /\ call.ret[i] >= 0
              /\ call.args.col[i] = 0 => call.ret[i] = 0
        /\ SeqSum(call.ret) = call.args.target

\* A call without replacement on a vector with a zero between two non-zero
\* entries, both of which keep some of their counts.
C1_Witness ==
    /\ call.op = "downsample_cell"
    /\ SeqSum(call.args.col) > call.args.target
    /\ ~call.args.replace
    /\ Len(call.args.col) = 3
    /\ call.args.col[2] = 0
    /\ call.ret[1] > 0
    /\ call.ret[3] > 0

\* C3: what subsample and downsample_cell return depends only on their input
\* and the seed: entered with the generator in any other state, the same
\* call returns the same.
C3_OutputIndependentOfGeneratorState ==
    /\ call.op = "downsample_cell" =>
        \A s \in RngStates :
            /\ DownsampleCell(s, call.args.col, call.args.target,
                              call.args.random_state, call.args.replace,
                              call.args.inplace).raised = call.raised
            /\ DownsampleCell(s, call.args.col, call.args.target,
                              call.args.random_state, call.args.replace,
                              call.args.inplace).ret = call.ret
    /\ call.op = "subsample" =>
        \A s \in RngStates :
            /\ Subsample(s, call.args.data, call.args.fraction, call.args.n_obs,
                         call.args.random_state, call.args.copy).raised = call.raised
            /\ Subsample(s, call.args.data, call.args.fraction, call.args.n_obs,
                         call.args.random_state, call.args.copy).ret = call.ret

\* subsample of two of three values, from any generator state, took the
\* later one first.
C3_Witness ==
    /\ call.op = "subsample"
    /\ ~call.raised
    /\ call.args.data.kind = "array"
    /\ Len(call.args.data.vals) = 3
    /\ call.args.n_obs = Some(2)
    /\ Val(call.ret)[2][1] > Val(call.ret)[2][2]

\* C4 as stated: downsample_cell called with a target at or above the total
\* of the vector raises, with and without replacement.
C4_RejectsTargetAtOrAboveTotal ==
    (call.op = "downsample_cell" /\ call.args.target >= SeqSum(call.args.col)) =>
        call.raised

(***************************************************************************)
(* Properties of downsample_counts (SpecDownsample).                       *)
(***************************************************************************)
\* The dataset holding the outcome of the call: the caller's own, or the
\* copy returned.  A call with copy that raised hands nothing back.
HasResult == ~call.args.copy \/ ~IsNone(call.ret)
Result == IF call.args.copy THEN Val(call.ret) ELSE data

\* C2: after downsample_counts every row's total is the smaller of its
\* original total and target_counts; a row at or below target_counts keeps
\* every value.
C2_RowTotalsCappedAtTarget ==
    (call.op = "downsample_counts" /\ HasResult) =>
        \A i \in 1..NObs :
            LET before == ToDenseRows(call.args.data.X)[i]
                after  == ToDenseRows(Result.X)[i]
            IN  /\ SeqSum(after) = Min(SeqSum(before), call.args.target_counts)
                /\ SeqSum(before) <= call.args.target_counts => after = before

\* One row is cut down to the target while the other, exactly at the
\* target, is kept.
C2_Witness ==
    /\ call.op = "downsample_counts"
    /\ ~call.raised
    /\ call.args.target_counts > 0
    /\ SeqSum(ToDenseRows(call.args.data.X)[1]) > call.args.target_counts
    /\ SeqSum(ToDenseRows(call.args.data.X)[2]) = call.args.target_counts
    /\ ToDenseRows(Result.X)[2] = ToDenseRows(call.args.data.X)[2]

\* C5: on a compressed-row matrix downsample_counts rewrites stored values
\* only: the row pointers and the column indices are as before, so an entry
\* resampled to 0 stays stored.
C5_SparseLayoutUnchanged ==
    (call.op = "downsample_counts" /\ IsSparse(call.args.data.X) /\ HasResult) =>
        /\ IsSparse(Result.X)
        /\ Result.X.indptr = call.args.data.X.indptr
        /\ Result.X.indices = call.args.data.X.indices
        /\ Len(Result.X.data) = Len(call.args.data.X.data)

\* A stored non-zero entry was resampled to 0.
C5_Witness ==
    /\ call.op = "downsample_counts"
    /\ IsSparse(call.args.data.X)
    /\ ~call.raised
    /\ \E k \in 1..Len(call.args.data.X.data) :
          call.args.data.X.data[k] > 0 /\ Result.X.data[k] = 0

\* C6 as stated, for downsample_counts: called with the same seed and target
\* on a compressed-row matrix and on the dense matrix of the same values, it
\* ends the same way and leaves the same value at every position.
C6_SparseAndDenseDownsampleAgree ==
    (call.op = "downsample_counts" /\ IsSparse(call.args.data.X)) =>
        LET dense == DownsampleCounts(0, AnnData(Dense(ToDenseRows(call.args.data.X)), <<>>),
                                      call.args.target_counts, call.args.random_state,
                                      call.args.replace, FALSE)
        IN  /\ dense.raised = call.raised
            /\ HasResult => ToDenseRows(Result.X) = dense.data.X.rows

(***************************************************************************)
(* Properties of filter_cells and filter_genes (SpecFilter).               *)
(***************************************************************************)
IsFilterCall == call.op \in {"filter_cells", "filter_genes"}

\* The bound on the number of non-zero entries: genes of a cell, cells of a gene.
MinNumber == IF call.op = "filter_cells" THEN call.args.min_genes ELSE call.args.min_cells
MaxNumber == IF call.op = "filter_cells" THEN call.args.max_genes ELSE call.args.max_cells

NGiven ==
    Cardinality({k \in 1..4 :
        ~IsNone(<<call.args.min_counts, MinNumber, call.args.max_counts, MaxNumber>>[k])})

\* The statistic read off the logical matrix: per row for filter_cells, per
\* column for filter_genes; the sum with a count bound, else the number of
\* non-zero entries.
Statistic ==
    LET M == ToDenseRows(call.args.data)
        line(i) == IF call.op = "filter_cells" THEN M[i]
                   ELSE [r \in 1..Len(M) |-> M[r][i]]
    IN  [i \in 1..(IF call.op = "filter_cells" THEN Len(M) ELSE call.args.data.n_vars) |->
            IF IsNone(MinNumber) /\ IsNone(MaxNumber)
            THEN SeqSum(line(i))
            ELSE Cardinality({j \in 1..Len(line(i)) : line(i)[j] # 0})]

\* C7: called on a matrix with exactly one bound, filter_cells and
\* filter_genes return the row (column) sums with a count bound and the
\* numbers of non-zero entries otherwise, and a mask true exactly where that
\* statistic is >= the lower bound given, or <= the upper bound given.
C7_StatisticAndMask ==
    (IsFilterCall /\ ~IsAnnData(call.args.data) /\ NGiven = 1) =>
        /\ ~call.raised
        /\ Val(call.ret)[2] = Statistic
        /\ Len(Val(call.ret)[1]) = Len(Statistic)
        /\ \A i \in 1..Len(Statistic) :
              Val(call.ret)[1][i] =
                  \/ ~IsNone(call.args.min_counts) /\ Statistic[i] >= Val(call.args.min_counts)
                  \/ ~IsNone(MinNumber) /\ Statistic[i] >= Val(MinNumber)
                  \/ ~IsNone(call.args.max_counts) /\ Statistic[i] <= Val(call.args.max_counts)
                  \/ ~IsNone(MaxNumber) /\ Statistic[i] <= Val(MaxNumber)

\* filter_cells with min_genes on a compressed-row matrix storing a zero:
\* the first row meets the bound exactly, the second does not.
C7_Witness ==
    /\ call.op = "filter_cells"
    /\ IsSparse(call.args.data)
    /\ \E k \in 1..Len(call.args.data.data) : call.args.data.data[k] = 0
    /\ call.args.min_genes = Some(2)
    /\ ~call.raised
    /\ Val(call.ret) = <<(<<TRUE, FALSE>>), (<<2, 1>>)>>

\* C8 as stated: filter_cells and filter_genes raise unless exactly one of
\* the four bounds is given.
C8_RejectsUnlessOneBound ==
    (IsFilterCall /\ NGiven # 1) => call.raised

(***************************************************************************)
(* Properties of normalize_per_cell (SpecNormalize, SpecLayers).           *)
(***************************************************************************)
IsNormalizeCall == call.op = "normalize_per_cell"

\* The matrix handed in and the matrix normalized.
OriginalMatrix ==
    IF IsAnnData(call.args.data) THEN call.args.data.X ELSE call.args.data
NormalizedMatrix ==
    IF IsAnnData(call.args.data) THEN Result.X ELSE Result

\* The values of row i: all of them, or the stored ones.
RowValues(m, i) == IF IsSparse(m) THEN RowData(m, i) ELSE m.rows[i]

\* The rows the call retains, ascending: with precomputed counts all rows,
\* otherwise the rows whose total is at least min_counts.
Retained ==
    IF ~IsNone(call.args.counts_per_cell)
    THEN [i \in 1..NRowsOf(OriginalMatrix) |-> i]
    ELSE MaskIndex([i \in 1..NRowsOf(OriginalMatrix) |->
            SeqSum(RowValues(OriginalMatrix, i)) >= Val(call.args.min_counts)])

\* C9: after normalize_per_cell with target total T, a retained row whose
\* total was not 0 has every entry multiplied by T / total and so sums to
\* T, and a retained row whose total was 0 is all zeros.
C9_RowsScaledToTarget ==
    (IsNormalizeCall /\ ~call.raised) =>
        /\ ~IsNone(call.args.counts_per_cell_after) =>
              call.after = call.args.counts_per_cell_after
        /\ NRowsOf(NormalizedMatrix) = Len(Retained)
        /\ \A k \in 1..Len(Retained) :
              LET before == RowValues(OriginalMatrix, Retained[k])
                  after  == RowValues(NormalizedMatrix, k)
                  T      == Val(call.after)
              IN  /\ Len(after) = Len(before)
                  /\ SeqSum(before) # 0 =>
                        /\ RatSum(after) = T
                        /\ \A j \in 1..Len(before) :
                              after[j] = Rat(before[j] * T[1], SeqSum(before) * T[2])
                  /\ SeqSum(before) = 0 =>
                        \A j \in 1..Len(before) : after[j] = <<0, 1>>

\* A compressed-row dataset with a row of total 0 and a row of total 3,
\* both retained and normalized to 2.
C9_Witness ==
    /\ IsNormalizeCall
    /\ ~call.raised
    /\ IsAnnData(call.args.data)
    /\ IsSparse(call.args.data.X)
    /\ call.args.counts_per_cell_after = Some(<<2, 1>>)
    /\ RowTotals(call.args.data.X) = <<0, 3>>
    /\ NRowsOf(NormalizedMatrix) = 2
    /\ \E k \in 1..Len(NormalizedMatrix.data) : NormalizedMatrix.data[k] = <<4, 3>>

\* The median of the totals at least min_counts, zero totals counted as 1.
MedianOfRetained(totals, min_counts) ==
    Median(ReplaceZeros(SelectSeq(totals, LAMBDA t : t >= min_counts)))

\* C10 as stated: with no target given, the target used is the median of
\* the row totals, zero totals replaced by 1, of the rows whose total meets
\* min_counts: for X, for a matrix with precomputed counts, and for each
\* layer.
C10_DefaultTargetIsMedianOfRetained ==
    (/\ IsNormalizeCall
     /\ ~call.raised
     /\ IsNone(call.args.counts_per_cell_after)
     /\ ~IsNone(call.args.min_counts)) =>
        /\ call.after =
              Some(MedianOfRetained(
                      IF IsNone(call.args.counts_per_cell) THEN RowTotals(OriginalMatrix)
                      ELSE Val(call.args.counts_per_cell),
                      Val(call.args.min_counts)))
        /\ \A l \in 1..Len(call.layer_after) :
              (call.args.use_rep = "none" /\ ~IsNone(call.layer_after[l])) =>
                  call.layer_after[l] =
                      Some(MedianOfRetained(
                              TakeSeq(RowTotals(call.args.data.layers[l]), Retained),
                              Val(call.args.min_counts)))

\* The layers the call normalized.
LayersNormalized == {l \in 1..Len(call.layer_after) : ~IsNone(call.layer_after[l])}

\* C11 as stated: every layer normalized is normalized to the target used
\* for X.
C11_LayersUseTargetOfX ==
    (IsNormalizeCall /\ ~call.raised) =>
        \A l \in LayersNormalized : call.layer_after[l] = call.after

\* C11, amended: a layer is normalized to the target given when use_rep is
\* 'after' and a target was given, and to the median of the totals of the
\* retained rows of X when use_rep is 'X': in both cases the target used
\* for X, unless use_rep is 'X' and a target was given.  With use_rep None,
\* or 'after' and no target given, it is normalized to the median of its
\* own row totals.  In each case a layer row whose total was not 0 ends
\* with the layer's target as its total.
C11_LayersFollowUseRep ==
    (IsNormalizeCall /\ ~call.raised) =>
        \A l \in LayersNormalized :
            /\ (call.args.use_rep = "after" /\ ~IsNone(call.args.counts_per_cell_after)) =>
                    /\ call.layer_after[l] = call.args.counts_per_cell_after
                    /\ call.layer_after[l] = call.after
            /\ call.args.use_rep = "X" =>
                    /\ call.layer_after[l] =
                          Some(Median(TakeSeq(RowTotals(call.args.data.X), Retained)))
                    /\ IsNone(call.args.counts_per_cell_after) =>
                          call.layer_after[l] = call.after
            /\ (\/ call.args.use_rep = "none"
                \/ (call.args.use_rep = "after"
                        /\ IsNone(call.args.counts_per_cell_after))) =>
                    call.layer_after[l] =
                        Some(Median(TakeSeq(RowTotals(call.args.data.layers[l]), Retained)))
            /\ \A k \in 1..Len(Retained) :
                  SeqSum(call.args.data.layers[l].rows[Retained[k]]) # 0 =>
                      RatSum(Result.layers[l].rows[k]) = Val(call.layer_after[l])

\* With use_rep 'X' and no target given, X and its layer, of other totals,
\* are both normalized to the median 3/2 of the totals of X.
C11_Witness ==
    /\ IsNormalizeCall
    /\ ~call.raised
    /\ call.args.use_rep = "X"
    /\ IsNone(call.args.counts_per_cell_after)
    /\ RowTotals(call.args.data.X) = <<1, 2>>
    /\ RowTotals(call.args.data.layers[1]) = <<1, 0>>
    /\ call.after = Some(<<3, 2>>)
    /\ call.layer_after = <<Some(<<3, 2>>)>>
    /\ RatSum(Result.layers[1].rows[1]) = <<3, 2>>

(***************************************************************************)
(* Properties of scale (SpecScale).                                        *)
(***************************************************************************)
IsScaleCall == call.op = "scale"

\* The matrix the call leaves scaled: the one returned, else the caller's.
ScaledMatrix ==
    IF IsAnnData(call.args.data) THEN Result.X
    ELSE IF IsNone(call.ret) THEN data ELSE Val(call.ret)

\* scale called with zero_center=True on a sparse matrix.
SparseCentered ==
    IsScaleCall /\ IsSparse(OriginalMatrix) /\ call.args.zero_center = Some(TRUE)

\* Entry (i, j) of X less its column's mean, over the root of its column's
\* variance, and clipped.
CenteredEntry(X, i, j, max_value) ==
    IF IsNone(max_value)
    THEN Scaled(RatSub(<<ToDenseRows(X)[i][j], 1>>, ColMeans(X)[j]), ColVars(X)[j])
    ELSE Clip(Scaled(RatSub(<<ToDenseRows(X)[i][j], 1>>, ColMeans(X)[j]), ColVars(X)[j]),
              Val(max_value))

C13_ZeroCenterFalseOnlyDivides ==
    (/\ IsScaleCall
     /\ ~call.raised
     /\ call.args.zero_center = Some(FALSE)
     /\ IsNone(call.args.max_value)) =>
        IF IsSparse(OriginalMatrix)
        THEN /\ IsSparse(ScaledMatrix)
             /\ ScaledMatrix.indices = OriginalMatrix.indices
             /\ ScaledMatrix.indptr = OriginalMatrix.indptr
             /\ \A k \in 1..Len(OriginalMatrix.data) :
                   ScaledMatrix.data[k] =
                       Scaled(<<OriginalMatrix.data[k], 1>>,
                              ColVars(OriginalMatrix)[OriginalMatrix.indices[k]])
        ELSE \A i \in 1..NObs, j \in 1..NVars :
                   ScaledMatrix.rows[i][j] =
                       Scaled(<<OriginalMatrix.rows[i][j], 1>>, ColVars(OriginalMatrix)[j])

(***************************************************************************)
(* Properties of regress_out (SpecRegress).                                *)
(***************************************************************************)
\* A call of regress_out that has returned or raised.
RegressDone == call.op = "regress_out" /\ call.pc = "done"

\* The matrix handed in, as rows.
RegressInput == ToDenseRows(call.args.data.X)

\* The regressor of column j of the matrix with these rows: the means of
\* the column within the cells' batches, or the cells' n_counts.
Regressor(rows, keys, obs, j) ==
    IF IsCategorical(keys)
    THEN [i \in 1..NCells |->
            Rat(SetSum(Members(Val(obs.batch), i), [r \in 1..NCells |-> rows[r][j]]),
                Cardinality(Members(Val(obs.batch), i)))]
    ELSE RatSeq(Val(obs.n_counts))

Regressors(rows, keys, obs) == [j \in 1..NGenes |-> Regressor(rows, keys, obs, j)]

\* The residuals of the columns of the matrix with these rows.
ResidualsOf(rows, regressors) ==
    [j \in 1..NGenes |-> Residual([i \in 1..NCells |-> <<rows[i][j], 1>>], regressors[j])]

\* The regressors and the residuals of the columns of the matrix handed in.
RegressorsOfInput == Regressors(RegressInput, call.args.keys, call.args.data.obs)
ResidualsOfInput == ResidualsOf(RegressInput, RegressorsOfInput)

\* Column j of the matrix with these rows.
ColumnAt(rows, j) == [i \in 1..NCells |-> rows[i][j]]

NoResidual == [i \in 1..NCells |-> <<0, 1>>]

\* Every column of rows is the residual of that column.
InColumnOrder(rows, residuals) == \A j \in 1..NGenes : ColumnAt(rows, j) = residuals[j]

\* C14: for every n_jobs >= 1, the column sections of regress_out, one
\* after the other, are the columns 1..n_vars in ascending order, and
\* column j of the result is the residual of column j of the input,
\* whether the sections were processed by map or by the pool, and in
\* whatever order the pool's workers finished them.
C14_ResidualsInColumnOrder ==
    (RegressDone /\ ~call.raised) =>
        /\ Concat(call.sections) = [j \in 1..NGenes |-> j]
        /\ \A c \in 1..Len(call.sections) : call.sections[c] # <<>>
        /\ InColumnOrder(Result.X.rows, ResidualsOfInput)

\* With n_jobs = 2 the sections are columns (1, 2) and (3); the worker of
\* the second finishes first, and the residuals are in the columns they
\* were computed from.
C14_Witness ==
    /\ RegressDone
    /\ ~call.raised
    /\ call.pooled
    /\ call.args.n_jobs = 2
    /\ call.sections = << <<1, 2>>, <<3>> >>
    /\ call.order = <<2, 1>>
    /\ RegressInput = << <<1, 1, 0>>, <<0, 2, 0>>, <<0, 3, 0>> >>
    /\ call.args.keys = <<"n_counts">>
    /\ Val(call.args.data.obs.n_counts) = <<1, 1, 1>>
    /\ Result.X.rows = << << <<2, 3>>, <<-1, 1>>, <<0, 1>> >>,
                          << <<-1, 3>>, <<0, 1>>, <<0, 1>> >>,
                          << <<-1, 3>>, <<1, 1>>, <<0, 1>> >> >>

\* The fit leaves no residual: it raises PerfectSeparationError.
PerfectFit(residual) == residual = NoResidual

\* The columns [ones, regressor] of the fit are linearly dependent: the
\* regressor does not vary.
RankDeficient(regressor) == Cross(regressor, regressor) = <<0, 1>>

DegenerateZeroed(column, warned, regressor, residual) ==
    IF RankDeficient(regressor) \/ PerfectFit(residual)
    THEN column = NoResidual /\ warned
    ELSE column = residual

AllDegenerateZeroed(rows, warned, regressors, residuals) ==
    \A j \in 1..NGenes :
        DegenerateZeroed(ColumnAt(rows, j), warned[j], regressors[j], residuals[j])

\* C15 as stated: a column whose fit is rank-deficient or perfectly
\* separated is set to zeros with a warning, every other column gets its
\* residual.
C15_DegenerateColumnsZeroed ==
    (RegressDone /\ ~call.raised) =>
        AllDegenerateZeroed(Result.X.rows, call.warned, RegressorsOfInput, ResidualsOfInput)

PerfectZeroed(column, warned, residual) ==
    /\ warned <=> PerfectFit(residual)
    /\ PerfectFit(residual) => column = NoResidual
    /\ ~PerfectFit(residual) => (column # NoResidual /\ column = residual)

AllPerfectZeroed(rows, warned, residuals) ==
    \A j \in 1..NGenes : PerfectZeroed(ColumnAt(rows, j), warned[j], residuals[j])

\* C15, amended: a fit is caught only when it is perfectly separated, that
\* is, leaves no residual: that column is set to zeros and a warning is
\* logged for it.  Every other column, one with a rank-deficient design
\* too, gets its least-squares residual and no warning.  No fit makes the
\* call raise: it raises only for a categorical key given with others, for
\* n_jobs below 1, or when the pool does not start.
C15_PerfectFitsZeroed ==
    RegressDone =>
        /\ call.raised =>
              \/ RegressKeysError(call.args.keys)
              \/ call.args.n_jobs < 1
              \/ ~call.args.pool_starts
        /\ ~call.raised => AllPerfectZeroed(Result.X.rows, call.warned, ResidualsOfInput)

\* With n_counts the same for every cell all designs are rank-deficient:
\* columns 1 and 2 get their residuals about the mean without a warning,
\* the all-zero column 3 is fitted perfectly and warned about.
C15_Witness ==
    /\ RegressDone
    /\ ~call.raised
    /\ ~call.pooled
    /\ call.args.keys = <<"n_counts">>
    /\ Val(call.args.data.obs.n_counts) = <<1, 1, 1>>
    /\ RegressInput = << <<1, 1, 0>>, <<0, 2, 0>>, <<0, 3, 0>> >>
    /\ call.warned = <<FALSE, FALSE, TRUE>>
    /\ ColumnAt(Result.X.rows, 3) = NoResidual
    /\ ColumnAt(Result.X.rows, 1) = << <<2, 3>>, <<-1, 3>>, <<-1, 3>> >>

\* C16: when regress_out is to use the pool (n_jobs > 1, more than one
\* section) and the pool does not start, the call does not raise and the
\* result holds the residual of every column, as after a parallel run.
C16_PoolFailureFallsBack ==
    (/\ RegressDone
     /\ ~RegressKeysError(call.args.keys)
     /\ call.args.n_jobs > 1
     /\ Len(call.sections) > 1
     /\ ~call.args.pool_starts) =>
        /\ ~call.raised
        /\ InColumnOrder(Result.X.rows, ResidualsOfInput)

\* C22: a call of regress_out with n_jobs <= 1, 0 and negative values
\* included, or with a split into a single section, starts no pool, does
\* not raise, and the result holds the residual of every column.
C22_SequentialBelowTwoJobs ==
    (/\ RegressDone
     /\ ~RegressKeysError(call.args.keys)
     /\ (call.args.n_jobs <= 1 \/ Len(call.sections) = 1)) =>
        /\ ~call.pooled
        /\ ~call.raised
        /\ InColumnOrder(Result.X.rows, ResidualsOfInput)

(***************************************************************************)
(* Properties of subsample (SpecSampling).                                 *)
(***************************************************************************)
IsSubsampleCall == call.op = "subsample"

\* The number of rows handed in and the row indices handed back, 0-based.
TotalRows == NObsOf(call.args.data)
ObsIndices == Val(call.ret)[2]

FractionInRange(f) == 0 <= f[1] /\ f[1] <= f[2]

\* f * n rounded to the nearest integer, a half to the even one.
Round(f, n) ==
    IF (2 * f[1] * n) % (2 * f[2]) = f[2]
    THEN IF ((f[1] * n) \div f[2]) % 2 = 0 THEN (f[1] * n) \div f[2]
         ELSE (f[1] * n) \div f[2] + 1
    ELSE (2 * f[1] * n + f[2]) \div (2 * f[2])

DistinctInRange(idx, n) ==
    /\ \A k \in 1..Len(idx) : 0 <= idx[k] /\ idx[k] < n
    /\ Cardinality({idx[k] : k \in 1..Len(idx)}) = Len(idx)

\* C17 as stated: with a fraction f in [0, 1] subsample returns
\* round(f * total_rows) distinct row indices in range, with a count n in
\* [0, total_rows] it returns n of them.
C17_SizeIsRoundedProduct ==
    /\ (/\ IsSubsampleCall
        /\ IsNone(call.args.n_obs)
        /\ ~IsNone(call.args.fraction)
        /\ FractionInRange(Val(call.args.fraction))) =>
            /\ ~call.raised
            /\ Len(ObsIndices) = Round(Val(call.args.fraction), TotalRows)
            /\ DistinctInRange(ObsIndices, TotalRows)
    /\ (/\ IsSubsampleCall
        /\ ~IsNone(call.args.n_obs)
        /\ IsNone(call.args.fraction)
        /\ Val(call.args.n_obs) \in 0..TotalRows) =>
            /\ ~call.raised
            /\ Len(ObsIndices) = Val(call.args.n_obs)
            /\ DistinctInRange(ObsIndices, TotalRows)

\* C17, amended: with a fraction f in [0, 1] and no count, subsample
\* returns as many row indices as the integer part of f * total_rows, the
\* product cut off, not rounded; with a count n in [0, total_rows] it
\* returns n, whatever fraction comes with it.  The indices are distinct
\* and in [0, total_rows).
C17_SizeIsTruncatedProduct ==
    /\ (/\ IsSubsampleCall
        /\ IsNone(call.args.n_obs)
        /\ ~IsNone(call.args.fraction)
        /\ FractionInRange(Val(call.args.fraction))) =>
            /\ ~call.raised
            /\ Len(ObsIndices) * Val(call.args.fraction)[2]
                    <= Val(call.args.fraction)[1] * TotalRows
            /\ Val(call.args.fraction)[1] * TotalRows
                    < (Len(ObsIndices) + 1) * Val(call.args.fraction)[2]
            /\ DistinctInRange(ObsIndices, TotalRows)
    /\ (/\ IsSubsampleCall
        /\ ~IsNone(call.args.n_obs)
        /\ Val(call.args.n_obs) \in 0..TotalRows) =>
            /\ ~call.raised
            /\ Len(ObsIndices) = Val(call.args.n_obs)
            /\ DistinctInRange(ObsIndices, TotalRows)

\* Half of three rows is one row.
C17_Witness ==
    /\ IsSubsampleCall
    /\ ~call.raised
    /\ IsNone(call.args.n_obs)
    /\ call.args.fraction = Some(<<1, 2>>)
    /\ TotalRows = 3
    /\ Len(ObsIndices) = 1
    /\ DistinctInRange(ObsIndices, TotalRows)

\* C18: subsample raises, and hands back no subset, when the fraction
\* given is outside [0, 1], when the count given is outside
\* [0, total_rows], both when one of the two and when both are given, and
\* when neither is given.
C18_RejectsInvalidArguments ==
    (/\ IsSubsampleCall
     /\ \/ ~IsNone(call.args.fraction) /\ ~FractionInRange(Val(call.args.fraction))
        \/ ~IsNone(call.args.n_obs) /\ Val(call.args.n_obs) \notin 0..TotalRows
        \/ IsNone(call.args.fraction) /\ IsNone(call.args.n_obs)) =>
        /\ call.raised
        /\ IsNone(call.ret)
        /\ data = call.args.data

(***************************************************************************)
(* Properties of the copy flag (SpecFrame).                                *)
(***************************************************************************)
CopyOperations ==
    {"filter_cells", "filter_genes", "log1p", "sqrt", "normalize_per_cell", "scale",
     "regress_out", "subsample", "downsample_counts", "graph_clustering"}

\* A call of one of the operations that has returned or raised.
CallCompleted ==
    /\ call.op \in CopyOperations
    /\ call.op = "regress_out" => call.pc = "done"

C20_InPlaceReturnsNone ==
    (CallCompleted /\ ~call.args.copy /\ ~call.raised) => IsNone(call.ret)

(***************************************************************************)
(* Properties of the column split of regress_out (SpecSplit).              *)
(***************************************************************************)
IsSplitCall == call.op = "split"

\* C21: for every number of columns F and every n_jobs P >= 1, every
\* section of the split of regress_out but the last holds exactly
\* ceil(min(1000, F) / P) columns.
C21_ChunksOfLenChunk ==
    IsSplitCall =>
        \A c \in 1..(Len(call.ret) - 1) : Len(call.ret[c]) = call.len_chunk

(***************************************************************************)
(* Properties of the merge walk of downsample_cell (SpecSampling).         *)
(***************************************************************************)
\* A call of downsample_cell without replacement that returned.
IsWalkWithoutReplacement ==
    call.op = "downsample_cell" /\ ~call.args.replace /\ ~call.raised

\* The sorted sample of the call, and the values geneptr takes for it.
SortedSample(col, target, random_state, replace) ==
    SortAsc(Choice(RngSeed(random_state), SeqSum(col), target, replace).sample)

SampleOfCall ==
    SortedSample(call.args.col, call.args.target, call.args.random_state, call.args.replace)

GeneptrOfCall == GeneptrWalk(SampleOfCall, 1, 1, CumSum(call.args.col))

NeverAbove(out, col) == \A i \in 1..Len(col) : out[i] <= col[i]

DrawsBelow(sample, total) == \A k \in 1..Len(sample) : 0 <= sample[k] /\ sample[k] < total

\* geneptr starts at the first index, never moves backwards, and never
\* passes the last index.
WalksForward(geneptr, last) ==
    /\ \A k \in 1..Len(geneptr) : 1 <= geneptr[k] /\ geneptr[k] <= last
    /\ \A k \in 1..(Len(geneptr) - 1) : geneptr[k] <= geneptr[k + 1]

\* C23: in a call of downsample_cell with replace=False that returns, no
\* entry of the output exceeds the input count at its position; every draw
\* is below the last cumulative sum, and over the sorted draws geneptr
\* never moves backwards and never passes the last index of the vector.
C23_WalkStaysWithinCounts ==
    IsWalkWithoutReplacement =>
        /\ NeverAbove(call.ret, call.args.col)
        /\ DrawsBelow(SampleOfCall, SeqSum(call.args.col))
        /\ Len(GeneptrOfCall) = call.args.target
        /\ WalksForward(GeneptrOfCall, Len(call.args.col))

\* Two of the three counts of (1, 0, 2) are kept: geneptr steps over the
\* empty bin to the last index, and the last bin keeps fewer counts than
\* it held.
C23_Witness ==
    /\ IsWalkWithoutReplacement
    /\ call.args.col = <<1, 0, 2>>
    /\ call.args.target = 2
    /\ GeneptrOfCall = <<1, 3>>
    /\ call.ret = <<1, 0, 1>>

(***************************************************************************)
(* Properties of the calls that reject their arguments (SpecFrame).        *)
(***************************************************************************)
\* The arguments of the call are ones the operation rejects: conflicting
\* or missing thresholds, a use_rep that is none of the three, a fraction
\* outside [0, 1] or neither n_obs nor fraction, a categorical key given
\* with others.
RejectedArguments(op, args) ==
    \/ /\ op = "filter_cells"
       /\ FilterCellsArgumentError(args.min_counts, args.min_genes,
                                   args.max_counts, args.max_genes)
    \/ /\ op = "filter_genes"
       /\ FilterGenesArgumentError(args.min_counts, args.min_cells,
                                   args.max_counts, args.max_cells)
    \/ op = "normalize_per_cell" /\ UseRepError(args.use_rep)
    \/ /\ op = "subsample"
       /\ IsNone(args.n_obs)
       /\ (IsNone(args.fraction) \/ ~FractionInRange(Val(args.fraction)))
    \/ op = "regress_out" /\ RegressKeysError(args.keys)

\* A call on a dataset with copy=False that raised for its arguments.
RejectedInPlace ==
    /\ CallCompleted
    /\ IsAnnData(call.args.data)
    /\ ~call.args.copy
    /\ call.raised
    /\ RejectedArguments(call.op, call.args)

\* The counts of a matrix written as quotients, which is how
\* normalize_per_cell leaves the entries it has divided.
Exact(X) ==
    IF IsSparse(X) THEN [X EXCEPT !.data = RatSeq(X.data)]
    ELSE [X EXCEPT !.rows = [i \in 1..Len(X.rows) |-> RatSeq(X.rows[i])]]

\* The call has divided the entries of X: normalize_per_cell got as far as
\* its target.
Divided == call.op = "normalize_per_cell" /\ ~IsNone(call.after)

\* The dataset after is the dataset before: the same rows and columns, the
\* same representation of X, the same annotations, the same entries.
SameDataset(before, after, divided) ==
    /\ NObsOf(after) = NObsOf(before)
    /\ after.X.n_vars = before.X.n_vars
    /\ after.X.kind = before.X.kind
    /\ after.obs = before.obs
    /\ after.var = before.var
    /\ after.layers = before.layers
    /\ after.X = (IF divided THEN Exact(before.X) ELSE before.X)

\* C24: after a call of filter_cells, filter_genes, normalize_per_cell,
\* subsample or regress_out on a dataset with copy=False that raised for
\* its arguments, the dataset is as it was before the call: the same
\* matrix in the same representation, the same annotations, rows and
\* columns.
C24_RejectedCallLeavesDataset ==
    RejectedInPlace => SameDataset(call.args.data, data, Divided)

(***************************************************************************)
(* Properties of graph_clustering with restrict_to (SpecClustering).       *)
(***************************************************************************)
\* A call of graph_clustering with restrict_to that did not raise.
IsRestrictedClustering ==
    /\ call.op = "graph_clustering"
    /\ ~call.raised
    /\ ~IsNone(call.args.restrict_to)

\* The label is one of the categories.
Within(label, categories) == \E c \in 1..Len(categories) : categories[c] = label

\* The position of row i among the rows whose label is one of the categories.
RankWithin(labels, categories, i) ==
    Cardinality({q \in 1..i : Within(labels[q], categories)})

\* The column added for the labels under key: the categories joined by '-',
\* a comma and the cluster id for the rows within the categories, the
\* label itself for the others.
RestrictedLabels(labels, categories, groups) ==
    [i \in 1..Len(labels) |->
        IF Within(labels[i], categories)
        THEN Join(categories) \o "," \o AsText(groups[RankWithin(labels, categories, i)])
        ELSE labels[i]]

\* The key the column is stored under.
StoredUnder(key, key_added) == IF IsNone(key_added) THEN key \o "_R" ELSE Val(key_added)

\* The partition covers the rows within the categories and no others, and
\* the column is stored under added in the dataset worked on.
ClusteredWithin(before, worked, key, categories, added, groups) ==
    /\ Len(groups) = Cardinality({i \in 1..NObsOf(before) :
                                     Within(Val(before.obs[key])[i], categories)})
    /\ added \in DOMAIN worked.obs
    /\ worked.obs[added] = Some(RestrictedLabels(Val(before.obs[key]), categories, groups))

\* C25 as stated: the column is added as described, and the column of key
\* is as it was.
C25_RestrictedLabelsKeyUnchanged ==
    IsRestrictedClustering =>
        /\ ClusteredWithin(call.args.data, Val(call.worked),
                           Val(call.args.restrict_to)[1], Val(call.args.restrict_to)[2],
                           StoredUnder(Val(call.args.restrict_to)[1], call.args.key_added),
                           call.args.groups)
        /\ Val(call.worked).obs[Val(call.args.restrict_to)[1]]
              = call.args.data.obs[Val(call.args.restrict_to)[1]]

\* Every annotation but the one stored under added is as it was.
OthersUnchanged(before, worked, added) ==
    \A k \in DOMAIN before.obs : k # added => worked.obs[k] = before.obs[k]

\* C25, amended: a call of graph_clustering with restrict_to = (key,
\* categories) that does not raise clusters the rows whose label under key
\* is one of the categories; in the dataset it worked on, the column
\* stored under key_added, or under key + '_R' when key_added is None,
\* holds for each of those rows the categories joined by '-', a comma and
\* the cluster id, and for every other row its label under key.  The
\* column of key is as it was unless key_added names it, in which case it
\* is the column added.
C25_RestrictedLabels ==
    IsRestrictedClustering =>
        /\ ClusteredWithin(call.args.data, Val(call.worked),
                           Val(call.args.restrict_to)[1], Val(call.args.restrict_to)[2],
                           StoredUnder(Val(call.args.restrict_to)[1], call.args.key_added),
                           call.args.groups)
        /\ OthersUnchanged(call.args.data, Val(call.worked),
                           StoredUnder(Val(call.args.restrict_to)[1], call.args.key_added))

\* Only the cell of batch 'a' is clustered: under batch_R it is 'a,0', the
\* other cell keeps 'b', and batch is as it was.
C25_Witness ==
    /\ IsRestrictedClustering
    /\ call.args.restrict_to = Some(<<"batch", <<"a">>>>)
    /\ IsNone(call.args.key_added)
    /\ ~call.args.copy
    /\ data.obs.batch_R = Some(<<"a,0", "b">>)
    /\ data.obs.batch = Some(<<"a", "b">>)

====
